---- MODULE Spec2Model ----
(***************************************************************************)
(* Wrapper: connection-preserving migration shim.                          *)
(*                                                                         *)
(* This module models the two UDP socket facades of the repository and the *)
(* control plane that drives them:                                         *)
(*   - MigratableUDP   (Server/sWrapper/migratable_udp.go), the server's   *)
(*     rebindable endpoint, with its concurrent ReadFrom / WriteTo /       *)
(*     Rebind / Close / LocalAddr / Set*Deadline callers;                  *)
(*   - SwappableUDPConn (Client/cWrapper/swappable_udp.go), the client's   *)
(*     endpoint: its socket life cycle (RebindLocal, Close), its peer      *)
(*     slots (SetPeer, ArmPeer, CutoverToArmedPeer) and the ReadFrom and   *)
(*     WriteTo that use them;                                              *)
(*   - the client's control loop (Client/cWrapper/dial.go), which reads    *)
(*     the control stream, switches the peer on a migrate, closes the      *)
(*     migrate latch once and acks;                                        *)
(*   - the commit listener, which cuts over to the armed peer on a         *)
(*     commit datagram;                                                    *)
(*   - the server's Serve (Server/sWrapper/server.go) and its control      *)
(*     client (Server/Wrapper/control_client.go): the connection slot, the *)
(*     ack reader, the SIGTERM loop and SendMigrateAndWait.                *)
(*   - the control stream's codec (WriteLine and LineReader.Next over      *)
(*     encoding/json), the endpoint's address comparison udpAddrEqual and  *)
(*     the order in which SwappableUDPConn's methods take mu and peerMu;   *)
(*   - the orchestrator's restore step (Server/Control/runner.go): criu    *)
(*     restore, SIGUSR2 to the restored process, the commit datagram;      *)
(*   - the earlier wrapper MigratablePacketConn (pre-dump/server and       *)
(*     quicriu/server) with PrepareForCheckpoint and Rebind;               *)
(*   - the reconnect-mode client Manager (Client/Wrapper/manager.go,       *)
(*     control_loop.go) and its Outbox (outbox.go).                        *)
(*                                                                         *)
(* A critical section m.mu.Lock() ... m.mu.Unlock() that contains no       *)
(* blocking call is one atomic action.  Everything a goroutine does        *)
(* outside the mutex (net.ListenUDP, the kernel read or write, closing the *)
(* replaced socket) is a separate action, so every interleaving the Go     *)
(* scheduler can produce between critical sections is explored.            *)
(***************************************************************************)
EXTENDS Integers, Sequences, FiniteSets, TLC

\* ------------------------------------------------------------------ bounds
\* Kernel sockets the process may create over its life (net.ListenUDP calls
\* that succeed, the constructor's included).
MaxSocks == 3
\* Datagrams the network delivers to the server's port.
MaxDgrams == 2
\* Migrate messages the client's control loop receives in one session.
MaxMigrates == 2
\* Pieces (words, white space, JSON objects) of a datagram sent to the
\* client's commit listener.
MaxPayload == 2
\* SIGTERMs the server's signal loop takes from its channel.
MaxTerms == 2
\* Ticks of the server's clock between the ids it makes.
MaxTicks == 1
\* Characters of the text of a control message's id.
MaxStr == 2
\* PrepareForCheckpoint calls on the earlier wrapper.
MaxCycles == 1
\* Sessions of one Manager.Run, and control messages read in one session.
MaxSessions == 2
MaxCtrlMsgs == 2
\* Enqueue calls on one Outbox.
MaxOps == 4
\* --------------------------------------------------------------- constants
\* gen: 1 in ListenMigratableUDP and in NewSwappableUDPConn.
InitGen == 1

NIL == 0
Socks == 1 .. MaxSocks

\* Local addresses.  The server listens on ListenAddr; the client is created
\* on ClientAddr and may move to OtherAddr with RebindLocal(laddr).
ListenAddr == "a4242"
ClientAddr == "c0"
OtherAddr == "c1"
NoAddr == "none"

\* Goroutines.  On the server: quic-go's receive loop, one more caller of the
\* PacketConn (sends, LocalAddr, deadlines), two callers of Rebind (the
\* SIGUSR2 handler and any other holder of the endpoint) and a caller of
\* Close.  On the client: two callers of RebindLocal and a caller of Close.
Readers == {"r1"}
Callers == {"u1"}
Rebinders == {"b1", "b2"}
Closers == {"k1"}
CRebinders == {"cb1", "cb2"}
CClosers == {"ck1"}
\* On the client also: quic-go's receive loop and its send path.
CReaders == {"cr1"}
CWriters == {"cw1"}
Procs == Readers \cup Callers \cup Rebinders \cup Closers \cup CRebinders \cup CClosers
           \cup CReaders \cup CWriters

\* Deadline arguments: the zero time clears a deadline, any other time arms it.
Times == {"zero", "t"}

\* net.IP: a byte slice of length 4 (IPv4), of length 16 (here always the
\* IPv4-mapped form of the host), or nil.
IPNil == [len |-> 0, host |-> "none"]
IP4(h) == [len |-> 4, host |-> h]
IP16(h) == [len |-> 16, host |-> h]

\* ip.To16(): the 16-byte form of a 4-byte address, a 16-byte address as it
\* is, nil for any other length.
To16(ip) == IF ip.len = 4 THEN IP16(ip.host) ELSE IF ip.len = 16 THEN ip ELSE IPNil

\* *net.UDPAddr: the nil pointer, or an address with its IP and port.
NoPeer == [isNil |-> TRUE, ip |-> IPNil, port |-> 0]
UDPAddr(ip, port) == [isNil |-> FALSE, ip |-> ip, port |-> port]

\* The address the client dials (Manager.Target's default), the same address
\* as the kernel reports it on a dual-stack socket, the address a migrate
\* message announces, and what net.ResolveUDPAddr makes of ":5243" (a
\* message with an empty new_addr): a nil IP.
Target == UDPAddr(IP4("127.0.0.1"), 5242)
TargetMapped == UDPAddr(IP16("127.0.0.1"), 5242)
NewTarget == UDPAddr(IP4("127.0.0.1"), 5243)
AnyHost == UDPAddr(IPNil, 5243)

\* The arguments of SetPeer and ArmPeer, and the sources the kernel reports
\* for the datagrams that reach the client's socket.
PeerArgs == {NoPeer, TargetMapped, NewTarget, AnyHost}
Sources == {TargetMapped, NewTarget}

VARIABLES
    side,       \* which endpoint this process constructed: "server" | "client"
    sock,       \* the kernel's sockets: state, bound address, datagrams queued, deadlines
    nDelivered, \* datagrams delivered so far
    m_conn,     \* MigratableUDP.conn (NIL: nil)
    m_gen,      \* MigratableUDP.gen
    s_conn,     \* SwappableUDPConn.conn
    s_gen,      \* SwappableUDPConn.gen
    s_laddr,    \* SwappableUDPConn.laddr
    pc,         \* each goroutine's position in the call it is making
    op,         \* the method it is (or was last) in
    lc,         \* its local c (ReadFrom, WriteTo, setters) or old (Rebind)
    lg,         \* its local g
    ln,         \* its local newConn (Rebind, RebindLocal)
    res,        \* what its last call returned
    crashed,    \* an unrecovered panic ended the process
    \* history (not program state)
    installed,  \* the sockets the endpoint has had as conn, in order
    closedEver, \* some Close() has taken effect
    retried,    \* this call took the "continue" after a closing error
    firstSock,  \* the socket this call sampled first
    postClose,  \* this call began after a Close() had returned
    nRebindOK,  \* Rebind() calls that returned nil
    firstClose, \* what the first Close() returned ("none" before it)
    \* SwappableUDPConn's peer slots and the goroutines that use them
    realPeer,   \* SwappableUDPConn.realPeer (NoPeer: nil)
    armedPeer,  \* SwappableUDPConn.armedPeer
    fakePeer,   \* SwappableUDPConn.fakePeer
    srcq,       \* per client socket: the sources of the datagrams queued, in order
    lfrom,      \* ReadFrom's local from
    lpeer,      \* WriteTo's local peer
    \* history of the peer slots (not program state)
    lastPeerOp, \* the last SetPeer / ArmPeer / CutoverToArmedPeer: argument, result
    committed,  \* the address the last commit promoted; NoPeer once a SetPeer
                \* or an ArmPeer has run after it
    io,         \* per call: the addresses it saw (see NoIO)
    \* the client's control loop (Manager.controlLoop) and its session
    cl_pc,      \* where the loop is: "next" | "switch" | "once" | "ack" | "ended"
    cl_msg,     \* the migrate message it is handling (NoMsg: none)
    onceDone,   \* migrateOnce has run its function
    migrateSeen, \* the MigrateSeen channel: "open" | "closed"
    acks,       \* the ack_ids the loop has written to the control stream, in order
    \* history of the control loop (not program state)
    cl_seen,    \* the ids of the migrate messages the loop has received, in order
    cl_last,    \* the message the loop handled last and the calls it made for it
    \* the commit listener (commitListener)
    ls_state,   \* "listening" | "stopped"
    ls_sent,    \* datagrams the listener has written to its socket
    \* history of the commit listener (not program state)
    ls_last,    \* the datagram handled last and the cutover() calls made for it
    \* the server's control plane (Serve, ControlClient)
    conn,       \* per connection: "none" | "started" | "registered" | "closed"
    cur,        \* Serve's cur (NoConn: nil)
    ackMap,     \* per connection: ControlClient.ackMap, id -> channel (NoChan: absent)
    chanBuf,    \* per channel made by SendMigrateAndWait: values buffered (0 or 1)
    done,       \* per connection: ControlClient.done is closed
    rd_pc,      \* per connection, the goroutine of Start: "off" | "next" | "lookup" | "signal" | "ended"
    rd_id,      \* its msg.AckID
    rd_ch,      \* its local ch
    sent,       \* per connection: the ids of the migrate messages written to it
    now,        \* time.Now().UnixNano(), as far as the ids depend on it
    nTerm,      \* SIGTERMs the loop has taken from term
    t_pc,       \* per SIGTERM: where its iteration is (see TermIdle)
    t_id,       \* its id
    t_c,        \* its c (NoConn: nil)
    t_acked,    \* its acked
    \* history of the SIGTERM loop (not program state)
    t_conns,    \* the connections that were connected when it read cur
    t_ack,      \* the reader has found its waiter for an ack it read
    t_why,      \* the case its select took: "ch" | "timeout" | "done"
    \* the codec of the control stream (WriteLine, LineReader)
    cd_pc,      \* "idle" | "written" | "read"
    cd_msg,     \* the Message given to WriteLine
    cd_stream,  \* the bytes written to the stream and not yet read
    cd_res,     \* what lr.Next() returned: msg, ok, err
    \* history of the readers of the control streams (not program state)
    cl_end,     \* why the client's control loop returned: "none" | "eof" | "badline"
    rd_end,     \* per connection: why the goroutine of Start returned
    rd_skip,    \* per connection: flips when the goroutine skips a message
    \* a caller of udpAddrEqual
    ae_a,       \* its a
    ae_b,       \* its b
    ae_eq,      \* udpAddrEqual(a, b)
    ae_rev,     \* udpAddrEqual(b, a)
    \* the locks of SwappableUDPConn and the goroutines in its methods
    lk_pc,      \* per goroutine: the place it is at ("idle": in no method)
    lk_mu,      \* the goroutine that holds s.mu (NoHolder: none)
    lk_w,       \* the goroutine that holds s.peerMu for writing
    lk_r,       \* the goroutines that hold s.peerMu for reading
    lk_fatal,   \* the runtime has ended the process: unlock of an unlocked lock
    \* Control's doMigrate (restore step), the restored server and the client
    or_pc,      \* where the step is ("panic": a call failed, the migration is aborted)
    or_addr,    \* cfg.commitAddr
    or_warn,    \* the warning that the commit could not be sent was printed
    sigq,       \* SIGUSR2s in the channel of InstallRebindOnUSR2
    hk_pc,      \* its goroutine: "wait" | "listen" | "swap" | "closeOld"
    hk_bound,   \* Rebind's ListenUDP has bound the new socket
    hk_err,     \* a Rebind has returned an error
    cm,         \* the commit: "none" | "sent" | "lost" | "cutover" | "served" | "unserved"
    \* the earlier wrapper, MigratablePacketConn, and its readers
    mp_variant, \* which version: "none" (not yet made) | "pre-dump" | "quicriu"
    mp_raw,     \* rawConn (NoRaw: nil); the socket made first is 1
    mp_open,    \* the sockets that are open
    mp_mig,     \* isMigrating
    mp_w,       \* the goroutine that holds w.mu for writing (NoHolder: none)
    mp_r,       \* the goroutines that hold w.mu for reading
    mp_wait,    \* the goroutines in w.cond.Wait()
    mp_pc,      \* per reader: the place in ReadFrom
    mp_conn,    \* per reader: its local conn
    mp_cycles,  \* PrepareForCheckpoint calls so far
    mp_fatal,   \* the runtime has ended the process with a fatal error
    \* history of the readers (not program state)
    mp_res,     \* per reader: what its last ReadFrom returned (see PResult)
    mp_over,    \* per reader: its call has been in progress while isMigrating
    \* the reconnect-mode client, Manager
    mg_pc,          \* Run: "new" | "dial" | "run" | "closing"
    mg_target,      \* Manager.Target
    mg_transparent, \* Manager.Transparent
    mg_ctrl,        \* the session's controlLoop: "none" | "running" | "done"
    mg_reconnect,   \* the session's reconnect channel (capacity 1)
    mg_prefTarget,  \* prefetchTarget
    mg_prefConn,    \* prefetchConn != nil
    mg_sessions,    \* sessions begun so far
    mg_msgs,        \* control messages read in this session
    \* history of the Manager (not program state)
    mg_last,        \* the target of the last migrate read in the latest session
    mg_dialed,      \* the target the latest session was made to
    \* the Outbox
    ob_made,        \* NewOutbox has returned
    ob_maxMessages, \* maxMessages
    ob_maxBytes,    \* maxBytes
    ob_dropOld,     \* dropOld
    ob_closed,      \* closed
    ob_q,           \* q
    ob_qBytes,      \* qBytes
    ob_ops,         \* Enqueue calls so far
    \* history of the Outbox (not program state)
    ob_last         \* the last call (see ObCall)

baseVars == << side, sock, nDelivered, m_conn, m_gen, s_conn, s_gen, s_laddr,
           pc, op, lc, lg, ln, res, crashed,
           installed, closedEver, retried, firstSock, postClose, nRebindOK,
           firstClose,
           realPeer, armedPeer, fakePeer, srcq, lfrom, lpeer,
           lastPeerOp, committed, io,
           cl_pc, cl_msg, onceDone, migrateSeen, acks, cl_seen, cl_last,
           ls_state, ls_sent, ls_last,
           conn, cur, ackMap, chanBuf, done, rd_pc, rd_id, rd_ch, sent,
           now, nTerm, t_pc, t_id, t_c, t_acked, t_conns, t_ack, t_why >>

codecVars == << cd_pc, cd_msg, cd_stream, cd_res >>
readHist == << cl_end, rd_end, rd_skip >>
addrVars == << ae_a, ae_b, ae_eq, ae_rev >>
lockVars == << lk_pc, lk_mu, lk_w, lk_r, lk_fatal >>
hookVars == << hk_pc, hk_bound, hk_err >>
orchVars == << or_pc, or_addr, or_warn, sigq, hookVars, cm >>
legacyVars == << mp_variant, mp_raw, mp_open, mp_mig, mp_w, mp_r, mp_wait, mp_pc,
                mp_conn, mp_cycles, mp_fatal, mp_res, mp_over >>
managerVars == << mg_pc, mg_target, mg_transparent, mg_ctrl, mg_reconnect,
                 mg_prefTarget, mg_prefConn, mg_sessions, mg_msgs, mg_last, mg_dialed >>
outboxVars == << ob_made, ob_maxMessages, ob_maxBytes, ob_dropOld, ob_closed, ob_q,
                ob_qBytes, ob_ops, ob_last >>
extVars == << codecVars, readHist, addrVars, lockVars, orchVars, legacyVars, managerVars,
             outboxVars >>
vars == << baseVars, extVars >>
notCodec == << baseVars, readHist, addrVars, lockVars, orchVars, legacyVars, managerVars,
    outboxVars >>
notReadHist == << codecVars, addrVars, lockVars, orchVars, legacyVars, managerVars,
    outboxVars >>
notAddr == << baseVars, codecVars, readHist, lockVars, orchVars, legacyVars, managerVars,
    outboxVars >>
notLock == << baseVars, codecVars, readHist, addrVars, orchVars, legacyVars, managerVars,
    outboxVars >>
notLegacy == << baseVars, codecVars, readHist, addrVars, lockVars, orchVars, managerVars,
    outboxVars >>
notManager == << baseVars, codecVars, readHist, addrVars, lockVars, orchVars, legacyVars,
    outboxVars >>
notOutbox == << baseVars, codecVars, readHist, addrVars, lockVars, orchVars, legacyVars,
    managerVars >>
notOrch == << baseVars, codecVars, readHist, addrVars, lockVars, legacyVars, managerVars,
    outboxVars >>

loopVars == << cl_pc, cl_msg, onceDone, migrateSeen, acks, cl_seen, cl_last >>
listenVars == << ls_state, ls_sent, ls_last >>
connVars == << conn, cur >>
readerVars == << rd_pc, rd_id, rd_ch, done >>
termVars == << now, nTerm, t_pc, t_id, t_c, t_acked, t_conns, t_ack, t_why >>
serveVars == << connVars, ackMap, chanBuf, readerVars, sent, termVars >>
ctrlVars == << loopVars, listenVars, serveVars >>

kernelVars == << sock, nDelivered >>
serverVars == << m_conn, m_gen >>
clientVars == << s_conn, s_gen, s_laddr >>
histVars == << installed, closedEver, nRebindOK, firstClose >>
callVars == << op, retried, firstSock, postClose >>
slotVars == << realPeer, armedPeer, fakePeer >>
peerHist == << lastPeerOp, committed >>
peerVars == << slotVars, srcq, lfrom, lpeer, peerHist, io >>

\* ------------------------------------------------------------------ kernel
FreeSock == [state |-> "unused", laddr |-> NoAddr, q |-> 0, closes |-> 0,
             rdl |-> FALSE, wdl |-> FALSE]

\* net.ListenUDP succeeded: a fresh socket bound to laddr.
BoundSock(laddr) == [FreeSock EXCEPT !.state = "open", !.laddr = laddr]

IsOpen(s) == s # NIL /\ sock[s].state = "open"

Unused == {s \in Socks : sock[s].state = "unused"}

\* The descriptor the next successful net.ListenUDP returns.
NextSock == CHOOSE s \in Unused : \A t \in Unused : s <= t

\* (*net.UDPConn).Close(): nil the first time, the closing error afterwards.
\* The receive queue goes with the socket.
CloseErr(sk, s) == IF sk[s].state = "open" THEN "nil" ELSE "ErrClosed"

CloseSock(sk, s) ==
    [sk EXCEPT ![s].state = "closed", ![s].q = 0, ![s].closes = @ + 1]

\* ----------------------------------------------------------------- results
\* kind: the error (or "nil"); for a datagram ReadFrom returned: the socket it
\* was read from, the generation sampled with that socket, and m.gen at the
\* moment of the return; for a Rebind that found the endpoint closed: the
\* socket it had created.
NoRes == [kind |-> "none", sock |-> NIL, g |-> 0, rg |-> 0]

Result(kind) == [NoRes EXCEPT !.kind = kind]

\* errors.New("udp conn is nil"): the endpoint's "closed" error.
ErrNil == Result("ErrNil")
\* net.ErrClosed, "use of closed network connection".
ErrClosed == Result("ErrClosed")
\* A deadline passed (os.ErrDeadlineExceeded): an ordinary I/O failure.
ErrTimeout == Result("ErrTimeout")
\* net.ListenUDP's error.
ErrBind == Result("ErrBind")
\* A nil error.
Ok == Result("nil")

Idle(p) == pc[p] \in {"idle", "done"}

Running == ~crashed

\* A call begins: its history is reset.
Begin(p, name, first) ==
    /\ op' = [op EXCEPT ![p] = name]
    /\ retried' = [retried EXCEPT ![p] = FALSE]
    /\ postClose' = [postClose EXCEPT ![p] = closedEver]
    /\ firstSock' = [firstSock EXCEPT ![p] = first]

\* The call goes on at label with these locals.
Step(p, label, c, g, n) ==
    /\ pc' = [pc EXCEPT ![p] = label]
    /\ res' = [res EXCEPT ![p] = NoRes]
    /\ lc' = [lc EXCEPT ![p] = c]
    /\ lg' = [lg EXCEPT ![p] = g]
    /\ ln' = [ln EXCEPT ![p] = n]

\* The call returns r; its locals are dead.
Return(p, r) ==
    /\ pc' = [pc EXCEPT ![p] = "done"]
    /\ res' = [res EXCEPT ![p] = r]
    /\ lc' = [lc EXCEPT ![p] = NIL]
    /\ lg' = [lg EXCEPT ![p] = 0]
    /\ ln' = [ln EXCEPT ![p] = NIL]

\* What net.ListenUDP can do now: fail, or (a descriptor being left) succeed.
ListenOutcomes == IF Unused = {} THEN {"ErrBind"} ELSE {"nil", "ErrBind"}

\* ------------------------------------------------------------ MigratableUDP
\* isNetClosing(err): errors.Is(err, net.ErrClosed) or the message match.
IsNetClosing(err) == err = "ErrClosed"

\* A ReadFrom / WriteTo without the generation check: every closing error is
\* returned to the caller.
Same_NoCheck(p) == TRUE

\* same := m.conn == c && m.gen == g
Same(p) == m_conn = lc[p] /\ m_gen = lg[p]

\* What c.ReadFrom(p) can return now (none: the call stays blocked).
KernelRead(c) ==
    IF sock[c].state # "open" THEN {"ErrClosed"}
    ELSE (IF sock[c].q > 0 THEN {"nil"} ELSE {})
         \cup (IF sock[c].rdl THEN {"ErrTimeout"} ELSE {})

\* What c.WriteTo(p, addr) can return now.
KernelWrite(c) ==
    IF sock[c].state # "open" THEN {"ErrClosed"}
    ELSE {"nil"} \cup (IF sock[c].wdl THEN {"ErrTimeout"} ELSE {})

\* ReadFrom, top of the loop: c := m.conn; g := m.gen under the mutex, and
\* the nil check.
ReadSnapshot(p) ==
    /\ Running /\ side = "server"
    /\ Idle(p) \/ pc[p] = "rretry"
    /\ IF pc[p] = "rretry" THEN UNCHANGED callVars ELSE Begin(p, "ReadFrom", m_conn)
    /\ IF m_conn = NIL
          THEN Return(p, ErrNil)
          ELSE Step(p, "reading", m_conn, m_gen, NIL)
    /\ UNCHANGED << side, extVars, ctrlVars, peerVars, kernelVars, serverVars, clientVars, crashed, histVars >>

\* n, addr, err := c.ReadFrom(p), outside the mutex: a datagram is returned
\* at once, a closing error goes to the generation check, any other error
\* is returned as it is.
ReadKernel(p) ==
    /\ Running /\ side = "server"
    /\ pc[p] = "reading"
    /\ \E err \in KernelRead(lc[p]) :
          IF err = "nil"
             THEN /\ sock' = [sock EXCEPT ![lc[p]].q = @ - 1]
                  /\ Return(p, [kind |-> "nil", sock |-> lc[p], g |-> lg[p],
                                rg |-> m_gen])
          ELSE IF IsNetClosing(err)
             THEN /\ Step(p, "rerr", lc[p], lg[p], NIL)
                  /\ UNCHANGED sock
          ELSE /\ Return(p, Result(err))
               /\ UNCHANGED sock
    /\ UNCHANGED << side, extVars, ctrlVars, peerVars, nDelivered, serverVars, clientVars, crashed, histVars, callVars >>

\* After a closing error: same is computed under the mutex; a swap means
\* "continue", no swap means the error is returned.
ReadCheck(p) ==
    /\ Running /\ side = "server"
    /\ pc[p] = "rerr"
    /\ IF ~Same(p)
          THEN /\ Step(p, "rretry", NIL, 0, NIL)
               /\ retried' = [retried EXCEPT ![p] = TRUE]
          ELSE /\ Return(p, ErrClosed)
               /\ UNCHANGED retried
    /\ UNCHANGED << side, extVars, ctrlVars, peerVars, kernelVars, serverVars, clientVars, crashed, histVars,
                    op, firstSock, postClose >>

\* WriteTo, top of the loop.
WriteSnapshot(p) ==
    /\ Running /\ side = "server"
    /\ Idle(p) \/ pc[p] = "wretry"
    /\ IF pc[p] = "wretry" THEN UNCHANGED callVars ELSE Begin(p, "WriteTo", NIL)
    /\ IF m_conn = NIL
          THEN Return(p, ErrNil)
          ELSE Step(p, "writing", m_conn, m_gen, NIL)
    /\ UNCHANGED << side, extVars, ctrlVars, peerVars, kernelVars, serverVars, clientVars, crashed, histVars >>

\* n, err := c.WriteTo(p, addr), outside the mutex.
WriteKernel(p) ==
    /\ Running /\ side = "server"
    /\ pc[p] = "writing"
    /\ \E err \in KernelWrite(lc[p]) :
          IF err = "nil"
             THEN Return(p, Ok)
          ELSE IF IsNetClosing(err)
             THEN Step(p, "werr", lc[p], lg[p], NIL)
          ELSE Return(p, Result(err))
    /\ UNCHANGED << side, extVars, ctrlVars, peerVars, kernelVars, serverVars, clientVars, crashed, histVars, callVars >>

\* WriteTo's generation check after a closing error.
WriteCheck(p) ==
    /\ Running /\ side = "server"
    /\ pc[p] = "werr"
    /\ IF ~Same(p)
          THEN /\ Step(p, "wretry", NIL, 0, NIL)
               /\ UNCHANGED retried
          ELSE /\ Return(p, ErrClosed)
               /\ UNCHANGED retried
    /\ UNCHANGED << side, extVars, ctrlVars, peerVars, kernelVars, serverVars, clientVars, crashed, histVars,
                    op, firstSock, postClose >>

\* A Rebind that forgets m.gen++.
RebindGen_Forgot(g) == g

\* m.gen++ in Rebind.
RebindGen(g) == g + 1

\* A Rebind without the old == nil check.
RebindOldIsNil_Never(old) == FALSE

\* old == nil in Rebind: the endpoint was closed.
RebindOldIsNil(old) == old = NIL

\* A Rebind that closes the current socket first and binds the new one after.
RebindBind_CloseFirst(p) ==
    /\ Running /\ side = "server"
    /\ Idle(p)
    /\ Begin(p, "Rebind", NIL)
    /\ \E err \in ListenOutcomes :
          LET closed == IF m_conn = NIL THEN sock ELSE CloseSock(sock, m_conn) IN
          IF err = "nil"
             THEN /\ sock' = [closed EXCEPT ![NextSock] = BoundSock(ListenAddr)]
                  /\ Step(p, "bound", NIL, 0, NextSock)
             ELSE /\ Return(p, ErrBind)
                  /\ sock' = closed
    /\ UNCHANGED << side, extVars, ctrlVars, peerVars, nDelivered, serverVars, clientVars, crashed, histVars >>

\* Rebind, first statement: newConn, err := net.ListenUDP(m.network, m.laddr).
\* On an error Rebind returns it; nothing else has been touched.
RebindBind(p) ==
    /\ Running /\ side = "server"
    /\ Idle(p)
    /\ Begin(p, "Rebind", NIL)
    /\ \E err \in ListenOutcomes :
          IF err = "nil"
             THEN /\ sock' = [sock EXCEPT ![NextSock] = BoundSock(ListenAddr)]
                  /\ Step(p, "bound", NIL, 0, NextSock)
             ELSE /\ Return(p, ErrBind)
                  /\ UNCHANGED sock
    /\ UNCHANGED << side, extVars, ctrlVars, peerVars, nDelivered, serverVars, clientVars, crashed, histVars >>

\* Rebind's critical section: old := m.conn; on nil the new socket is closed
\* and the "udp conn is nil" error returned; else m.conn = newConn; m.gen++.
RebindSwap(p) ==
    /\ Running /\ side = "server"
    /\ pc[p] = "bound"
    /\ IF RebindOldIsNil(m_conn)
          THEN /\ sock' = CloseSock(sock, ln[p])
               /\ Return(p, [ErrNil EXCEPT !.sock = ln[p]])
               /\ UNCHANGED << serverVars, installed >>
          ELSE /\ m_conn' = ln[p]
               /\ m_gen' = RebindGen(m_gen)
               /\ installed' = Append(installed, ln[p])
               /\ Step(p, "swapped", m_conn, 0, NIL)
               /\ UNCHANGED sock
    /\ UNCHANGED << side, extVars, ctrlVars, peerVars, nDelivered, clientVars, crashed, closedEver, nRebindOK,
                    firstClose, callVars >>

\* A Rebind that returns without closing the replaced socket.
RebindCloseOld_Skips(p) ==
    /\ Running /\ side = "server"
    /\ pc[p] = "swapped"
    /\ Return(p, Ok)
    /\ nRebindOK' = nRebindOK + 1
    /\ UNCHANGED << side, extVars, ctrlVars, peerVars, kernelVars, serverVars, clientVars, crashed, installed,
                    closedEver, firstClose, callVars >>

\* Rebind, after the mutex is released: _ = old.Close(); return nil.
RebindCloseOld(p) ==
    /\ Running /\ side = "server"
    /\ pc[p] = "swapped"
    /\ sock' = CloseSock(sock, lc[p])
    /\ Return(p, Ok)
    /\ nRebindOK' = nRebindOK + 1
    /\ UNCHANGED << side, extVars, ctrlVars, peerVars, nDelivered, serverVars, clientVars, crashed, installed,
                    closedEver, firstClose, callVars >>

\* m.conn == nil in Close: already closed.
CloseIsNil(c) == c = NIL

\* A Close that forgets m.conn = nil.
CloseConn_Keeps(c) == c

\* m.conn = nil in Close.
CloseConn(c) == NIL

\* Close, the whole of it under the mutex: nil when already closed, else
\* err := m.conn.Close(); m.conn = nil; m.gen++; return err.
Close(p) ==
    /\ Running /\ side = "server"
    /\ Idle(p)
    /\ Begin(p, "Close", NIL)
    /\ IF CloseIsNil(m_conn)
          THEN /\ Return(p, Ok)
               /\ firstClose' = IF firstClose = "none" THEN "nil" ELSE firstClose
               /\ UNCHANGED << sock, serverVars, closedEver >>
          ELSE /\ sock' = CloseSock(sock, m_conn)
               /\ Return(p, Result(CloseErr(sock, m_conn)))
               /\ firstClose' = IF firstClose = "none" THEN CloseErr(sock, m_conn)
                                                       ELSE firstClose
               /\ m_conn' = CloseConn(m_conn)
               /\ m_gen' = m_gen + 1
               /\ closedEver' = TRUE
    /\ UNCHANGED << side, extVars, ctrlVars, peerVars, nDelivered, clientVars, crashed, installed, nRebindOK >>

\* LocalAddr: c := m.conn under the mutex; an empty address when nil, else
\* c.LocalAddr(), which a closed socket still answers.
LocalAddr(p) ==
    /\ Running /\ side = "server"
    /\ Idle(p)
    /\ Begin(p, "LocalAddr", NIL)
    /\ IF m_conn = NIL
          THEN Return(p, Result("emptyAddr"))
          ELSE Return(p, Result("addr"))
    /\ UNCHANGED << side, extVars, ctrlVars, peerVars, kernelVars, serverVars, clientVars, crashed, histVars >>

DeadlineOps == {"SetDeadline", "SetReadDeadline", "SetWriteDeadline"}

\* SetDeadline / SetReadDeadline / SetWriteDeadline: c := m.conn under the
\* mutex.  There is no nil check.
DeadlineSnapshot(p, name) ==
    /\ Running /\ side = "server"
    /\ Idle(p)
    /\ Begin(p, name, NIL)
    /\ Step(p, "setdl", m_conn, 0, NIL)
    /\ UNCHANGED << side, extVars, ctrlVars, peerVars, kernelVars, serverVars, clientVars, crashed, histVars >>

\* return c.Set...Deadline(t), outside the mutex: a nil c panics (the method
\* is promoted from the struct embedded in net.UDPConn), a closed socket
\* answers with the closing error.
DeadlineCall(p, t) ==
    /\ Running /\ side = "server"
    /\ pc[p] = "setdl"
    /\ IF lc[p] = NIL
          THEN /\ Return(p, Result("panic"))
               /\ crashed' = TRUE
               /\ UNCHANGED sock
          ELSE IF sock[lc[p]].state # "open"
          THEN /\ Return(p, ErrClosed)
               /\ UNCHANGED << sock, crashed >>
          ELSE /\ sock' = [sock EXCEPT
                     ![lc[p]].rdl = IF op[p] = "SetWriteDeadline" THEN @ ELSE t # "zero",
                     ![lc[p]].wdl = IF op[p] = "SetReadDeadline" THEN @ ELSE t # "zero"]
               /\ Return(p, Ok)
               /\ UNCHANGED crashed
    /\ UNCHANGED << side, extVars, ctrlVars, peerVars, nDelivered, serverVars, clientVars, histVars, callVars >>

\* The network hands a datagram to a socket bound to the server's address.
Deliver ==
    /\ Running /\ side = "server"
    /\ nDelivered < MaxDgrams
    /\ \E s \in Socks :
          /\ IsOpen(s) /\ sock[s].laddr = ListenAddr
          /\ sock' = [sock EXCEPT ![s].q = @ + 1]
    /\ nDelivered' = nDelivered + 1
    /\ UNCHANGED << side, extVars, ctrlVars, peerVars, serverVars, clientVars, pc, lc, lg, ln, res, crashed,
                    histVars, callVars >>

\* --------------------------------------------------------- SwappableUDPConn
\* The laddr arguments of RebindLocal: nil (NoAddr) keeps s.laddr.
LocalArgs == {NoAddr, ClientAddr, OtherAddr}

\* s.gen++ in RebindLocal.
RebindLocalGen(g) == g + 1

\* RebindLocal, up to the mutex: if laddr == nil { laddr = s.laddr };
\* newConn, err := net.ListenUDP(s.network, laddr).
RebindLocalBind(p, laddr) ==
    /\ Running /\ side = "client"
    /\ Idle(p)
    /\ Begin(p, "RebindLocal", NIL)
    /\ \E err \in ListenOutcomes :
          IF err = "nil"
             THEN /\ sock' = [sock EXCEPT ![NextSock] =
                         BoundSock(IF laddr = NoAddr THEN s_laddr ELSE laddr)]
                  /\ Step(p, "bound", NIL, 0, NextSock)
             ELSE /\ Return(p, ErrBind)
                  /\ UNCHANGED sock
    /\ UNCHANGED << side, extVars, ctrlVars, peerVars, nDelivered, serverVars, clientVars, crashed, histVars >>

\* RebindLocal's critical section: old := s.conn; on nil the new socket is
\* closed and an error returned; else s.conn = newConn; s.laddr = laddr;
\* s.gen++.
RebindLocalSwap(p) ==
    /\ Running /\ side = "client"
    /\ pc[p] = "bound"
    /\ IF s_conn = NIL
          THEN /\ sock' = CloseSock(sock, ln[p])
               /\ Return(p, [ErrNil EXCEPT !.sock = ln[p]])
               /\ UNCHANGED << clientVars, installed >>
          ELSE /\ s_conn' = ln[p]
               /\ s_laddr' = sock[ln[p]].laddr
               /\ s_gen' = RebindLocalGen(s_gen)
               /\ installed' = Append(installed, ln[p])
               /\ Step(p, "swapped", s_conn, 0, NIL)
               /\ UNCHANGED sock
    /\ UNCHANGED << side, extVars, ctrlVars, peerVars, nDelivered, serverVars, crashed, closedEver, nRebindOK,
                    firstClose, callVars >>

\* RebindLocal, after the mutex is released: _ = old.Close(); return nil.
RebindLocalCloseOld(p) ==
    /\ Running /\ side = "client"
    /\ pc[p] = "swapped"
    /\ sock' = CloseSock(sock, lc[p])
    /\ Return(p, Ok)
    /\ nRebindOK' = nRebindOK + 1
    /\ UNCHANGED << side, extVars, ctrlVars, peerVars, nDelivered, serverVars, clientVars, crashed, installed,
                    closedEver, firstClose, callVars >>

\* s.conn = nil in SwappableUDPConn.Close.
SCloseConn(c) == NIL

\* SwappableUDPConn.Close, under the mutex: the same as MigratableUDP.Close.
SClose(p) ==
    /\ Running /\ side = "client"
    /\ Idle(p)
    /\ Begin(p, "Close", NIL)
    /\ IF s_conn = NIL
          THEN /\ Return(p, Ok)
               /\ firstClose' = IF firstClose = "none" THEN "nil" ELSE firstClose
               /\ UNCHANGED << sock, clientVars, closedEver >>
          ELSE /\ sock' = CloseSock(sock, s_conn)
               /\ Return(p, Result(CloseErr(sock, s_conn)))
               /\ firstClose' = IF firstClose = "none" THEN CloseErr(sock, s_conn)
                                                       ELSE firstClose
               /\ s_conn' = SCloseConn(s_conn)
               /\ s_gen' = s_gen + 1
               /\ s_laddr' = s_laddr
               /\ closedEver' = TRUE
    /\ UNCHANGED << side, extVars, ctrlVars, peerVars, nDelivered, serverVars, crashed, installed, nRebindOK >>

\* -------------------------------------------- SwappableUDPConn: peer slots
\* A comparison that does not normalize the IPs.
udpAddrEqual_Raw(a, b) ==
    ~a.isNil /\ ~b.isNil /\ a.port = b.port /\ a.ip # IPNil /\ a.ip = b.ip

\* udpAddrEqual(a, b): false when either pointer is nil or the ports differ;
\* else both IPs are taken to their 16-byte form (a nil IP stays nil) and the
\* result is ai != nil && bi != nil && ai.Equal(bi).
udpAddrEqual(a, b) ==
    IF a.isNil \/ b.isNil THEN FALSE
    ELSE IF a.port # b.port THEN FALSE
    ELSE LET ai == IF a.ip # IPNil THEN To16(a.ip) ELSE IPNil
             bi == IF b.ip # IPNil THEN To16(b.ip) ELSE IPNil
         IN  ai # IPNil /\ bi # IPNil /\ ai = bi

\* The addresses udpAddrEqual may be given: the nil pointer, and addresses
\* whose IP is nil, the 4-byte or the IPv4-mapped 16-byte form of an IPv4
\* host, a 16-byte IPv6 address, or a slice of another length.
Hosts == {"127.0.0.1", "10.0.0.2"}
IPs == {IPNil, IP16("::1"), [len |-> 5, host |-> "::1"]}
           \cup {IP4(h) : h \in Hosts} \cup {IP16(h) : h \in Hosts}
Addrs == {NoPeer} \cup {UDPAddr(ip, port) : ip \in IPs, port \in {5242, 5243}}

\* A call of udpAddrEqual(a, b), and of udpAddrEqual(b, a).
AddrCompare(a, b) ==
    /\ ae_a' = a
    /\ ae_b' = b
    /\ ae_eq' = udpAddrEqual(a, b)
    /\ ae_rev' = udpAddrEqual(b, a)
    /\ UNCHANGED notAddr

\* What a call saw: the kernel's source of the datagram ReadFrom returned and
\* the address it reported for it; the real peer getPeer() gave the call; the
\* destination WriteTo handed to the kernel; and, sampled when the call began, the argument of the SetPeer that was the
\* last operation on the peer slots (NoPeer if it was another operation) and
\* the committed address.
NoPeerOp == [name |-> "none", arg |-> NoPeer, ret |-> FALSE, seq |-> 0]

NoIO == [from |-> NoPeer, addr |-> NoPeer, peer |-> NoPeer, to |-> NoPeer,
         set |-> NoPeer, commit |-> NoPeer]

\* The record of a peer-slot operation: its name, argument and result; seq
\* alternates, so that no two operations in a row leave the same record.
PeerOp(name, arg, ret) ==
    [name |-> name, arg |-> arg, ret |-> ret, seq |-> 1 - lastPeerOp.seq]

\* A SetPeer that stores its argument in the armed slot.
SetPeer_Arms(peer) ==
    /\ Running /\ side = "client"
    /\ armedPeer' = peer
    /\ lastPeerOp' = PeerOp("SetPeer", peer, FALSE)
    /\ committed' = NoPeer
    /\ UNCHANGED << side, extVars, ctrlVars, kernelVars, serverVars, clientVars, pc, lc, lg, ln, res,
                    crashed, histVars, callVars, realPeer, fakePeer, srcq,
                    lfrom, lpeer, io >>

\* SetPeer(peer): s.realPeer = peer under the peer lock.
SetPeer(peer) ==
    /\ Running /\ side = "client"
    /\ realPeer' = peer
    /\ lastPeerOp' = PeerOp("SetPeer", peer, FALSE)
    /\ committed' = NoPeer
    /\ UNCHANGED << side, extVars, ctrlVars, kernelVars, serverVars, clientVars, pc, lc, lg, ln, res,
                    crashed, histVars, callVars, armedPeer, fakePeer, srcq,
                    lfrom, lpeer, io >>

\* An ArmPeer that switches the real peer as well.
ArmPeer_Switches(peer) ==
    /\ Running /\ side = "client"
    /\ armedPeer' = peer
    /\ realPeer' = peer
    /\ lastPeerOp' = PeerOp("ArmPeer", peer, FALSE)
    /\ committed' = NoPeer
    /\ UNCHANGED << side, extVars, ctrlVars, kernelVars, serverVars, clientVars, pc, lc, lg, ln, res,
                    crashed, histVars, callVars, fakePeer, srcq,
                    lfrom, lpeer, io >>

\* ArmPeer(peer): s.armedPeer = peer under the peer lock.
ArmPeer(peer) ==
    /\ Running /\ side = "client"
    /\ armedPeer' = peer
    /\ lastPeerOp' = PeerOp("ArmPeer", peer, FALSE)
    /\ committed' = NoPeer
    /\ UNCHANGED << side, extVars, ctrlVars, kernelVars, serverVars, clientVars, pc, lc, lg, ln, res,
                    crashed, histVars, callVars, realPeer, fakePeer, srcq,
                    lfrom, lpeer, io >>

\* A commit that promotes the armed peer without comparing it.
CutoverWanted_NoCompare(real, armed) == armed # NoPeer

\* A commit without the armedPeer == nil check.
CutoverWanted_NoNilCheck(real, armed) == ~(real # NoPeer /\ udpAddrEqual(real, armed))

\* CutoverToArmedPeer's two early returns: armedPeer == nil, and
\* realPeer != nil && udpAddrEqual(realPeer, armedPeer).
CutoverWanted(real, armed) ==
    /\ armed # NoPeer
    /\ ~(real # NoPeer /\ udpAddrEqual(real, armed))

\* A commit that returns true without the assignment s.realPeer = s.armedPeer.
CutoverToArmedPeer_NoSwitch ==
    /\ Running /\ side = "client"
    /\ LET ok == CutoverWanted(realPeer, armedPeer) IN
          /\ lastPeerOp' = PeerOp("CutoverToArmedPeer", NoPeer, ok)
          /\ committed' = IF ok THEN armedPeer ELSE committed
    /\ UNCHANGED << side, extVars, ctrlVars, kernelVars, serverVars, clientVars, pc, lc, lg, ln, res,
                    crashed, histVars, callVars, realPeer, armedPeer, fakePeer, srcq,
                    lfrom, lpeer, io >>

\* A commit that empties the armed slot when it promotes.
CutoverToArmedPeer_Clears ==
    /\ Running /\ side = "client"
    /\ LET ok == CutoverWanted(realPeer, armedPeer) IN
          /\ realPeer' = IF ok THEN armedPeer ELSE realPeer
          /\ armedPeer' = IF ok THEN NoPeer ELSE armedPeer
          /\ lastPeerOp' = PeerOp("CutoverToArmedPeer", NoPeer, ok)
          /\ committed' = IF ok THEN armedPeer ELSE committed
    /\ UNCHANGED << side, extVars, ctrlVars, kernelVars, serverVars, clientVars, pc, lc, lg, ln, res,
                    crashed, histVars, callVars, fakePeer, srcq,
                    lfrom, lpeer, io >>

\* CutoverToArmedPeer(), the whole of it under the peer lock: false on the
\* early returns, else s.realPeer = s.armedPeer and true.  The armed slot is
\* not assigned.
CutoverToArmedPeer ==
    /\ Running /\ side = "client"
    /\ LET ok == CutoverWanted(realPeer, armedPeer) IN
          /\ realPeer' = IF ok THEN armedPeer ELSE realPeer
          /\ lastPeerOp' = PeerOp("CutoverToArmedPeer", NoPeer, ok)
          /\ committed' = IF ok THEN armedPeer ELSE committed
    /\ UNCHANGED << side, extVars, ctrlVars, kernelVars, serverVars, clientVars, pc, lc, lg, ln, res,
                    crashed, histVars, callVars, armedPeer, fakePeer, srcq,
                    lfrom, lpeer, io >>

\* getPeer(): s.realPeer under the read lock.
getPeer == realPeer

\* ------------------------------------- SwappableUDPConn: ReadFrom, WriteTo
\* errors.New("real peer is nil"): WriteTo's "no peer" error.
ErrNoPeer == Result("ErrNoPeer")

\* What a call that begins now records of the history of the peer slots.
StartIO ==
    [NoIO EXCEPT !.set = IF lastPeerOp.name = "SetPeer" THEN lastPeerOp.arg ELSE NoPeer,
                 !.commit = committed]

\* A call begins: what it saw is reset.
BeginIO(p) == io' = [io EXCEPT ![p] = StartIO]

\* same := s.conn == c && s.gen == g
CSame(p) == s_conn = lc[p] /\ s_gen = lg[p]

\* What c.ReadFromUDP(p) can return now (none: the call stays blocked).
CKernelRead(c) ==
    IF sock[c].state # "open" THEN {"ErrClosed"}
    ELSE (IF srcq[c] # << >> THEN {"nil"} ELSE {})
         \cup (IF sock[c].rdl THEN {"ErrTimeout"} ELSE {})

\* A ReadFrom without the source filter.
Accepts_All(peer, from) == TRUE

\* ReadFrom's filter: the datagram is dropped ("continue") when
\* peer != nil && from != nil && !udpAddrEqual(peer, from).
Accepts(peer, from) ==
    ~(peer # NoPeer /\ from # NoPeer /\ ~udpAddrEqual(peer, from))

\* A ReadFrom that returns the kernel's source.
ReportedSource_Raw(from) == from

\* The address ReadFrom returns: s.fakePeer unless it is nil.
ReportedSource(from) == IF fakePeer # NoPeer THEN fakePeer ELSE from

\* A WriteTo that sends to the address it was given.
WriteDest_Arg(peer, addr) == addr

\* The destination of c.WriteToUDP(p, peer): the peer read at the top of
\* WriteTo; the address argument is not used.
WriteDest(peer, addr) == peer

\* ReadFrom, top of the loop: c := s.conn; g := s.gen under the mutex, and the
\* nil check.
CReadSnapshot(p) ==
    /\ Running /\ side = "client"
    /\ Idle(p) \/ pc[p] = "rretry"
    /\ IF pc[p] = "rretry"
          THEN UNCHANGED << callVars, io >>
          ELSE Begin(p, "ReadFrom", s_conn) /\ BeginIO(p)
    /\ IF s_conn = NIL
          THEN Return(p, ErrNil)
          ELSE Step(p, "reading", s_conn, s_gen, NIL)
    /\ UNCHANGED << side, extVars, ctrlVars, kernelVars, serverVars, clientVars, crashed, histVars,
                    slotVars, srcq, lfrom, lpeer, peerHist >>

\* n, from, err := c.ReadFromUDP(p), outside the mutex: a datagram goes to the
\* filter, a closing error to the generation check, any other error is
\* returned.
CReadKernel(p) ==
    /\ Running /\ side = "client"
    /\ pc[p] = "reading"
    /\ \E err \in CKernelRead(lc[p]) :
          IF err = "nil"
             THEN /\ srcq' = [srcq EXCEPT ![lc[p]] = Tail(@)]
                  /\ lfrom' = [lfrom EXCEPT ![p] = Head(srcq[lc[p]])]
                  /\ Step(p, "rfilter", lc[p], lg[p], NIL)
          ELSE IF IsNetClosing(err)
             THEN /\ Step(p, "rerr", lc[p], lg[p], NIL)
                  /\ UNCHANGED << srcq, lfrom >>
          ELSE /\ Return(p, Result(err))
               /\ UNCHANGED << srcq, lfrom >>
    /\ UNCHANGED << side, extVars, ctrlVars, kernelVars, serverVars, clientVars, crashed, histVars,
                    callVars, slotVars, lpeer, peerHist, io >>

\* peer := s.getPeer() and the filter: a datagram of another source is
\* dropped and the loop starts again; an accepted one is returned with
\* s.fakePeer as its source.
CReadFilter(p) ==
    /\ Running /\ side = "client"
    /\ pc[p] = "rfilter"
    /\ IF ~Accepts(getPeer, lfrom[p])
          THEN /\ Step(p, "rretry", NIL, 0, NIL)
               /\ UNCHANGED io
          ELSE /\ Return(p, [kind |-> "nil", sock |-> lc[p], g |-> lg[p],
                             rg |-> s_gen])
               /\ io' = [io EXCEPT ![p].from = lfrom[p],
                                   ![p].addr = ReportedSource(lfrom[p]),
                                   ![p].peer = getPeer]
    /\ lfrom' = [lfrom EXCEPT ![p] = NoPeer]
    /\ UNCHANGED << side, extVars, ctrlVars, kernelVars, serverVars, clientVars, crashed, histVars,
                    callVars, slotVars, srcq, lpeer, peerHist >>

\* After a closing error: a swap means "continue", no swap returns the error.
CReadCheck(p) ==
    /\ Running /\ side = "client"
    /\ pc[p] = "rerr"
    /\ IF ~CSame(p)
          THEN /\ Step(p, "rretry", NIL, 0, NIL)
               /\ retried' = [retried EXCEPT ![p] = TRUE]
          ELSE /\ Return(p, ErrClosed)
               /\ UNCHANGED retried
    /\ UNCHANGED << side, extVars, ctrlVars, kernelVars, serverVars, clientVars, crashed, histVars,
                    op, firstSock, postClose, peerVars >>

\* WriteTo, before the loop: peer := s.getPeer(), and the nil check.
CWritePeer(p) ==
    /\ Running /\ side = "client"
    /\ Idle(p)
    /\ Begin(p, "WriteTo", NIL)
    /\ IF getPeer = NoPeer
          THEN /\ Return(p, ErrNoPeer)
               /\ BeginIO(p)
               /\ UNCHANGED lpeer
          ELSE /\ Step(p, "wloop", NIL, 0, NIL)
               /\ io' = [io EXCEPT ![p] = [StartIO EXCEPT !.peer = getPeer]]
               /\ lpeer' = [lpeer EXCEPT ![p] = getPeer]
    /\ UNCHANGED << side, extVars, ctrlVars, kernelVars, serverVars, clientVars, crashed, histVars,
                    slotVars, srcq, lfrom, peerHist >>

\* WriteTo, top of the loop: c := s.conn; g := s.gen under the mutex, and the
\* nil check.
CWriteSnapshot(p) ==
    /\ Running /\ side = "client"
    /\ pc[p] = "wloop"
    /\ IF s_conn = NIL
          THEN /\ Return(p, ErrNil)
               /\ lpeer' = [lpeer EXCEPT ![p] = NoPeer]
          ELSE /\ Step(p, "writing", s_conn, s_gen, NIL)
               /\ UNCHANGED lpeer
    /\ UNCHANGED << side, extVars, ctrlVars, kernelVars, serverVars, clientVars, crashed, histVars,
                    callVars, slotVars, srcq, lfrom, peerHist, io >>

\* n, err := c.WriteToUDP(p, peer), outside the mutex.
CWriteKernel(p) ==
    /\ Running /\ side = "client"
    /\ pc[p] = "writing"
    /\ \E err \in KernelWrite(lc[p]) :
          IF err = "nil"
             THEN /\ Return(p, Ok)
                  /\ io' = [io EXCEPT ![p].to = WriteDest(lpeer[p], fakePeer)]
                  /\ lpeer' = [lpeer EXCEPT ![p] = NoPeer]
          ELSE IF IsNetClosing(err)
             THEN /\ Step(p, "werr", lc[p], lg[p], NIL)
                  /\ UNCHANGED << io, lpeer >>
          ELSE /\ Return(p, Result(err))
               /\ lpeer' = [lpeer EXCEPT ![p] = NoPeer]
               /\ UNCHANGED io
    /\ UNCHANGED << side, extVars, ctrlVars, kernelVars, serverVars, clientVars, crashed, histVars,
                    callVars, slotVars, srcq, lfrom, peerHist >>

\* WriteTo's generation check after a closing error; the retry sends to the
\* peer read before the loop.
CWriteCheck(p) ==
    /\ Running /\ side = "client"
    /\ pc[p] = "werr"
    /\ IF ~CSame(p)
          THEN /\ Step(p, "wloop", NIL, 0, NIL)
               /\ UNCHANGED lpeer
          ELSE /\ Return(p, ErrClosed)
               /\ lpeer' = [lpeer EXCEPT ![p] = NoPeer]
    /\ UNCHANGED << side, extVars, ctrlVars, kernelVars, serverVars, clientVars, crashed, histVars,
                    callVars, slotVars, srcq, lfrom, peerHist, io >>

\* The network hands a datagram of source from to a socket of the client.
CDeliver(from) ==
    /\ Running /\ side = "client"
    /\ nDelivered < MaxDgrams
    /\ \E s \in Socks :
          /\ IsOpen(s)
          /\ srcq' = [srcq EXCEPT ![s] = Append(@, from)]
    /\ nDelivered' = nDelivered + 1
    /\ UNCHANGED << side, extVars, ctrlVars, sock, serverVars, clientVars, pc, lc, lg, ln, res, crashed,
                    histVars, callVars, slotVars, lfrom, lpeer, peerHist, io >>

\* ------------------------------------------- the client's control loop
\* A control message (Message): its type and the fields the loop reads.
Msg(type, id, host, port) == [type |-> type, id |-> id, host |-> host, port |-> port]
NoMsg == Msg("none", "", "", 0)

\* The ids of the migrate and commit messages a server sends, the hosts a
\* migrate message may name (an address, none, a name that does not resolve)
\* and the port it names (MIGRATE_PORT's default).
MigrateIds == {"m-1", "m-2"}
MigrateHosts == {"127.0.0.1", "", "nohost"}
MigratePort == 5243

\* What lr.Next() can hand to the loop: a message of one of the four types of
\* the codec or of a type it does not name, the end of the stream, or a line
\* that does not decode.
LoopMsgs ==
    {Msg("migrate", i, h, MigratePort) : i \in MigrateIds, h \in MigrateHosts}
        \cup {Msg("commit", i, "", 0) : i \in MigrateIds}
        \cup {Msg("hello", "", "", 0), Msg("ack", "", "", 0), Msg("bye", "", "", 0)}
LoopInputs == LoopMsgs \cup {Msg("eof", "", "", 0), Msg("badline", "", "", 0)}

\* net.ResolveUDPAddr("udp", fmt.Sprintf("%s:%d", host, port)): the address,
\* with a nil IP when the host is empty, or an error (NoPeer here) when the
\* host does not resolve.
ResolveUDPAddr(host, port) ==
    IF host = "127.0.0.1" THEN UDPAddr(IP4(host), port)
    ELSE IF host = "" THEN UDPAddr(IPNil, port)
    ELSE NoPeer

\* The record of a message handled by the loop: the message and the calls
\* the loop made for it, in order.
Handled(msg, calls) == [msg |-> msg, calls |-> calls]
NoHandled == Handled(NoMsg, << >>)
Called(name) == cl_last' = [cl_last EXCEPT !.calls = Append(@, name)]

\* pc.SetPeer(na) as the control loop calls it: the effect of SetPeer on the
\* peer slots.
SetPeerCall(peer) ==
    /\ realPeer' = peer
    /\ lastPeerOp' = PeerOp("SetPeer", peer, FALSE)
    /\ committed' = NoPeer
    /\ UNCHANGED << armedPeer, fakePeer >>

\* A loop that takes a commit message as it takes a migrate.
LoopTakes_Commit(m) == m.type \in {"migrate", "commit"}

\* if msg.Type != TypeMigrate { continue }
LoopTakes(m) == m.type = "migrate"

\* msg, ok, err := lr.Next() and the two tests that follow it: the loop
\* returns at the end of the stream and on a line that does not decode, goes
\* on to the next message ("continue") when the type is not migrate, and
\* handles a migrate message.
LoopNext(m) ==
    /\ Running /\ side = "client"
    /\ cl_pc = "next"
    /\ IF m.type \in {"eof", "badline"}
          THEN /\ cl_pc' = "ended"
               /\ cl_end' = m.type
               /\ UNCHANGED << cl_msg, cl_seen, cl_last >>
       ELSE IF ~LoopTakes(m)
          THEN /\ cl_last' = Handled(m, << >>)
               /\ UNCHANGED << cl_pc, cl_msg, cl_seen, cl_end >>
       ELSE /\ Len(cl_seen) < MaxMigrates
            /\ cl_pc' = "switch"
            /\ cl_msg' = m
            /\ cl_seen' = Append(cl_seen, m.id)
            /\ cl_last' = Handled(m, << >>)
            /\ UNCHANGED cl_end
    /\ UNCHANGED << side, notReadHist, rd_end, rd_skip, kernelVars, serverVars, clientVars, pc, lc, lg, ln, res,
                    crashed, histVars, callVars, peerVars,
                    onceDone, migrateSeen, acks, listenVars, serveVars >>

\* if na, rerr := net.ResolveUDPAddr("udp", newTarget); rerr == nil
\* { pc.SetPeer(na) }: the real peer is switched to the announced address at
\* once; an address that does not resolve is only traced.
LoopSwitchPeer ==
    /\ Running /\ side = "client"
    /\ cl_pc = "switch"
    /\ LET na == ResolveUDPAddr(cl_msg.host, cl_msg.port) IN
          IF na # NoPeer
             THEN SetPeerCall(na) /\ Called("SetPeer")
             ELSE UNCHANGED << slotVars, peerHist, cl_last >>
    /\ cl_pc' = "once"
    /\ UNCHANGED << side, extVars, kernelVars, serverVars, clientVars, pc, lc, lg, ln, res,
                    crashed, histVars, callVars, srcq, lfrom, lpeer, io,
                    cl_msg, onceDone, migrateSeen, acks, cl_seen,
                    listenVars, serveVars >>

\* A loop that closes the channel on every migrate message.
OnceRuns_Always == TRUE

\* sync.Once: Do runs its function if no Do of this Once has run one.
OnceRuns == ~onceDone

\* migrateOnce.Do(func() { close(migrateSeen) }).  Closing a closed channel
\* panics.
LoopOnce ==
    /\ Running /\ side = "client"
    /\ cl_pc = "once"
    /\ IF OnceRuns
          THEN /\ onceDone' = TRUE
               /\ Called("close")
               /\ IF migrateSeen = "closed"
                     THEN crashed' = TRUE /\ UNCHANGED migrateSeen
                     ELSE migrateSeen' = "closed" /\ UNCHANGED crashed
          ELSE UNCHANGED << onceDone, migrateSeen, crashed, cl_last >>
    /\ cl_pc' = "ack"
    /\ UNCHANGED << side, extVars, kernelVars, serverVars, clientVars, pc, lc, lg, ln, res,
                    histVars, callVars, peerVars,
                    cl_msg, acks, cl_seen, listenVars, serveVars >>

\* _ = WriteLine(ctrl, Message{Type: TypeAck, AckID: msg.ID}), and back to the
\* top of the loop.
LoopAck ==
    /\ Running /\ side = "client"
    /\ cl_pc = "ack"
    /\ acks' = Append(acks, cl_msg.id)
    /\ Called("ack")
    /\ cl_pc' = "next"
    /\ cl_msg' = NoMsg
    /\ UNCHANGED << side, extVars, kernelVars, serverVars, clientVars, pc, lc, lg, ln, res,
                    crashed, histVars, callVars, peerVars,
                    onceDone, migrateSeen, cl_seen, listenVars, serveVars >>

\* ------------------------------------------------- the commit listener
\* A datagram's payload is a sequence of pieces: white space, words, and
\* JSON objects written on one line.  No two pieces written one after the
\* other read as one word or as one JSON value.
Space == {"\n"}
Words == {"commit", "COMMIT"}
CommitObject == "{\"type\":\"commit\",\"id\":\"m-1\"}"
UpperObject == "{\"type\":\"COMMIT\",\"id\":\"m-1\"}"
MigrateObject == "{\"type\":\"migrate\",\"id\":\"m-1\"}"
Objects == {CommitObject, UpperObject, MigrateObject}
Pieces == Space \cup Words \cup Objects
Payloads == UNION {[1 .. n -> Pieces] : n \in 0 .. MaxPayload}

\* strings.TrimSpace: the payload without its leading and trailing white
\* space.
RECURSIVE TrimLeft(_)
TrimLeft(s) ==
    IF s # << >> /\ Head(s) \in Space THEN TrimLeft(Tail(s)) ELSE s
RECURSIVE TrimRight(_)
TrimRight(s) ==
    IF s # << >> /\ s[Len(s)] \in Space
       THEN TrimRight(SubSeq(s, 1, Len(s) - 1)) ELSE s
TrimSpace(s) == TrimRight(TrimLeft(s))

\* Unicode case folding, on the words of Pieces.
Fold(w) == IF w = "COMMIT" THEN "commit" ELSE w

\* A comparison that tells upper case from lower case.
EqualFold_Exact(s, w) == s = << w >>

\* strings.EqualFold(s, w): s is the one word w, in any letter case.
EqualFold(s, w) == Len(s) = 1 /\ s[1] \in Words /\ Fold(s[1]) = Fold(w)

\* json.Unmarshal([]byte(payload), &msg): msg.Type of the one JSON object the
\* payload is, or an error.
Unmarshal(s) ==
    IF Len(s) = 1 /\ s[1] \in Objects
       THEN (IF s[1] = CommitObject THEN "commit"
             ELSE IF s[1] = UpperObject THEN "COMMIT"
             ELSE "migrate")
       ELSE "error"

\* The tests commitListener makes on the trimmed payload before it calls
\* cutover(): not empty, and the word commit (strings.EqualFold) or a JSON
\* message whose type is TypeCommit.
IsCommit(payload) ==
    /\ payload # << >>
    /\ EqualFold(payload, "commit") \/ Unmarshal(payload) = "commit"

\* The record of a datagram handled by the listener: its payload and the
\* number of calls of cutover() made for it.
Dgram(p, n) == [handled |-> TRUE, payload |-> p, calls |-> n]
NoDgram == [handled |-> FALSE, payload |-> << >>, calls |-> 0]

\* cutover(): the callback, pc.CutoverToArmedPeer of the client's endpoint
\* (the effect of CutoverToArmedPeer on the peer slots).
CutoverCall ==
    LET ok == CutoverWanted(realPeer, armedPeer) IN
        /\ realPeer' = IF ok THEN armedPeer ELSE realPeer
        /\ lastPeerOp' = PeerOp("CutoverToArmedPeer", NoPeer, ok)
        /\ committed' = IF ok THEN armedPeer ELSE committed
        /\ UNCHANGED << armedPeer, fakePeer >>

\* One turn of commitListener's loop that reads a datagram: the payload is
\* trimmed; an empty one, one that is neither the word nor JSON, and a
\* message of another type are skipped; for a commit cutover() is called
\* once.  Nothing is written to the socket, and the loop goes on.
ListenRecv(p) ==
    /\ Running /\ side = "client"
    /\ ls_state = "listening"
    /\ LET payload == TrimSpace(p) IN
          IF IsCommit(payload)
             THEN CutoverCall /\ ls_last' = Dgram(p, 1)
             ELSE /\ ls_last' = Dgram(p, 0)
                  /\ UNCHANGED << slotVars, peerHist >>
    /\ UNCHANGED << side, extVars, kernelVars, serverVars, clientVars, pc, lc, lg, ln, res,
                    crashed, histVars, callVars, srcq, lfrom, lpeer, io,
                    loopVars, ls_state, ls_sent, serveVars >>

\* The listener returns: ctx is done, or ReadFrom failed with an error that
\* is not a timeout.
ListenStop ==
    /\ Running /\ side = "client"
    /\ ls_state = "listening"
    /\ ls_state' = "stopped"
    /\ UNCHANGED << side, extVars, kernelVars, serverVars, clientVars, pc, lc, lg, ln, res,
                    crashed, histVars, callVars, peerVars,
                    loopVars, ls_sent, ls_last, serveVars >>

\* ------------------------------------------ the server's control plane
\* The QUIC connections Serve accepts, the SIGTERMs its signal loop takes (the
\* k-th iteration of the loop makes the k-th call of SendMigrateAndWait, if it
\* makes one, and that call makes the channel k), and the ids: an id is
\* "m-" followed by the clock's value.
Conns == {"c1", "c2"}
NoConn == "nil"
Terms == 1 .. MaxTerms
Chans == Terms
NoChan == 0
Ids == 0 .. MaxTicks
NoId == -1

\* What lr.Next() can hand to the goroutine of Start: an ack, a message of
\* another type, the end of the stream or a line that does not decode.
AckMsg(id) == [type |-> "ack", ackid |-> id]
AckInputs == {AckMsg(i) : i \in Ids}
                 \cup {[type |-> t, ackid |-> NoId] : t \in {"eof", "badline"}}
OtherInputs == {[type |-> t, ackid |-> NoId] : t \in {"hello", "migrate", "bye"}}

\* The connection's goroutine in Serve, first part: conn.AcceptStream has
\* returned the control stream; cc := NewControlClient(ctrl); cc.Start().
ConnStart(c) ==
    /\ Running /\ side = "server"
    /\ conn[c] = "none"
    /\ conn' = [conn EXCEPT ![c] = "started"]
    /\ rd_pc' = [rd_pc EXCEPT ![c] = "next"]
    /\ UNCHANGED << side, extVars, kernelVars, serverVars, clientVars, pc, lc, lg, ln, res,
                    crashed, histVars, callVars, peerVars, loopVars, listenVars,
                    cur, ackMap, chanBuf, rd_id, rd_ch, done, sent, termVars >>

\* register(cc): cur = c under mu.  Serve has one slot.
Registered(c) == c

ConnRegister(c) ==
    /\ Running /\ side = "server"
    /\ conn[c] = "started"
    /\ conn' = [conn EXCEPT ![c] = "registered"]
    /\ cur' = Registered(c)
    /\ UNCHANGED << side, extVars, kernelVars, serverVars, clientVars, pc, lc, lg, ln, res,
                    crashed, histVars, callVars, peerVars, loopVars, listenVars,
                    ackMap, chanBuf, readerVars, sent, termVars >>

\* An unregister that clears the slot whoever is in it.
Unregistered_Always(slot, c) == NoConn

\* unregister(c): if cur == c { cur = nil }.
Unregistered(slot, c) == IF slot = c THEN NoConn ELSE slot

\* The connection ends: conn.AcceptStream fails, the goroutine returns and the
\* deferred unregister(cc) clears cur if it is still this client.
ConnClose(c) ==
    /\ Running /\ side = "server"
    /\ conn[c] = "registered"
    /\ conn' = [conn EXCEPT ![c] = "closed"]
    /\ cur' = Unregistered(cur, c)
    /\ UNCHANGED << side, extVars, kernelVars, serverVars, clientVars, pc, lc, lg, ln, res,
                    crashed, histVars, callVars, peerVars, loopVars, listenVars,
                    ackMap, chanBuf, readerVars, sent, termVars >>

\* Start's goroutine: msg, ok, err := lr.Next().  It returns (and the deferred
\* close(c.done) runs) at the end of the stream and on a line that does not
\* decode; a message that is no ack is skipped.
RdNext(c, m) ==
    /\ Running /\ side = "server"
    /\ rd_pc[c] = "next"
    /\ IF m.type \in {"eof", "badline"}
          THEN /\ rd_pc' = [rd_pc EXCEPT ![c] = "ended"]
               /\ done' = [done EXCEPT ![c] = TRUE]
               /\ rd_end' = [rd_end EXCEPT ![c] = m.type]
               /\ UNCHANGED << rd_id, rd_skip >>
          ELSE /\ UNCHANGED << done, rd_end >>
               /\ IF m.type = "ack"
                     THEN /\ rd_pc' = [rd_pc EXCEPT ![c] = "lookup"]
                          /\ rd_id' = [rd_id EXCEPT ![c] = m.ackid]
                          /\ UNCHANGED rd_skip
                     ELSE /\ rd_skip' = [rd_skip EXCEPT ![c] = ~@]
                          /\ UNCHANGED << rd_pc, rd_id >>
    /\ UNCHANGED << side, notReadHist, cl_end, kernelVars, serverVars, clientVars, pc, lc, lg, ln, res,
                    crashed, histVars, callVars, peerVars, loopVars, listenVars,
                    connVars, ackMap, chanBuf, rd_ch, sent, termVars >>

\* A lookup that finds the waiter of any id.
Lookup_Any(c, id) ==
    IF \E i \in Ids : ackMap[c][i] # NoChan
       THEN ackMap[c][CHOOSE i \in Ids : ackMap[c][i] # NoChan]
       ELSE NoChan

\* ch := c.ackMap[msg.AckID]
Lookup(c, id) == ackMap[c][id]

\* c.ackMu.Lock(); ch := c.ackMap[msg.AckID]; c.ackMu.Unlock(), and the test
\* ch != nil: with no waiter of that id the loop reads the next message.
RdLookup(c) ==
    /\ Running /\ side = "server"
    /\ rd_pc[c] = "lookup"
    /\ LET ch == Lookup(c, rd_id[c]) IN
          IF ch = NoChan
             THEN /\ rd_pc' = [rd_pc EXCEPT ![c] = "next"]
                  /\ rd_id' = [rd_id EXCEPT ![c] = NoId]
                  /\ UNCHANGED << rd_ch, t_ack >>
             ELSE /\ rd_pc' = [rd_pc EXCEPT ![c] = "signal"]
                  /\ rd_ch' = [rd_ch EXCEPT ![c] = ch]
                  /\ t_ack' = [t_ack EXCEPT ![ch] = TRUE]
                  /\ UNCHANGED rd_id
    /\ UNCHANGED << side, extVars, kernelVars, serverVars, clientVars, pc, lc, lg, ln, res,
                    crashed, histVars, callVars, peerVars, loopVars, listenVars,
                    connVars, ackMap, chanBuf, done, sent,
                    now, nTerm, t_pc, t_id, t_c, t_acked, t_conns, t_why >>

\* select { case ch <- struct{}{}: default: }: the value goes into the
\* channel's buffer of one, or is dropped when the buffer is full.
RdSignal(c) ==
    /\ Running /\ side = "server"
    /\ rd_pc[c] = "signal"
    /\ chanBuf' = [chanBuf EXCEPT ![rd_ch[c]] = 1]
    /\ rd_pc' = [rd_pc EXCEPT ![c] = "next"]
    /\ rd_id' = [rd_id EXCEPT ![c] = NoId]
    /\ rd_ch' = [rd_ch EXCEPT ![c] = NoChan]
    /\ UNCHANGED << side, extVars, kernelVars, serverVars, clientVars, pc, lc, lg, ln, res,
                    crashed, histVars, callVars, peerVars, loopVars, listenVars,
                    connVars, ackMap, done, sent, termVars >>

\* The clock goes on.
Tick ==
    /\ Running /\ side = "server"
    /\ now < MaxTicks
    /\ now' = now + 1
    /\ UNCHANGED << side, extVars, kernelVars, serverVars, clientVars, pc, lc, lg, ln, res,
                    crashed, histVars, callVars, peerVars, loopVars, listenVars,
                    connVars, ackMap, chanBuf, readerVars, sent,
                    nTerm, t_pc, t_id, t_c, t_acked, t_conns, t_ack, t_why >>

\* A signal loop that handles each SIGTERM in a goroutine of its own.
TermIdle_Async == TRUE

\* "for range term": the loop takes the next signal when the body of the
\* iteration before it has ended.
TermIdle == \A k \in Terms : t_pc[k] \in {"idle", "done"}

\* One iteration of the signal loop, up to the call: id from the clock,
\* c := cur under mu, and "continue" when c is nil.
TermSignal ==
    /\ Running /\ side = "server"
    /\ TermIdle
    /\ nTerm < MaxTerms
    /\ LET k == nTerm + 1 IN
          /\ t_id' = [t_id EXCEPT ![k] = now]
          /\ t_c' = [t_c EXCEPT ![k] = cur]
          /\ t_conns' = [t_conns EXCEPT ![k] = {c \in Conns : conn[c] = "registered"}]
          /\ t_pc' = [t_pc EXCEPT ![k] = IF cur = NoConn THEN "done" ELSE "call"]
    /\ nTerm' = nTerm + 1
    /\ UNCHANGED << side, extVars, kernelVars, serverVars, clientVars, pc, lc, lg, ln, res,
                    crashed, histVars, callVars, peerVars, loopVars, listenVars,
                    connVars, ackMap, chanBuf, readerVars, sent,
                    now, t_acked, t_ack, t_why >>

\* c.ackMap[id] = ch
Inserted(m, id, ch) == [m EXCEPT ![id] = ch]

\* SendMigrateAndWait, first critical section: ch := make(chan struct{}, 1);
\* c.ackMap[id] = ch.
SendRegister(k) ==
    /\ Running /\ side = "server"
    /\ t_pc[k] = "call"
    /\ ackMap' = [ackMap EXCEPT ![t_c[k]] = Inserted(@, t_id[k], k)]
    /\ t_pc' = [t_pc EXCEPT ![k] = "registered"]
    /\ UNCHANGED << side, extVars, kernelVars, serverVars, clientVars, pc, lc, lg, ln, res,
                    crashed, histVars, callVars, peerVars, loopVars, listenVars,
                    connVars, chanBuf, readerVars, sent,
                    now, nTerm, t_id, t_c, t_acked, t_conns, t_ack, t_why >>

\* _ = WriteLine(c.ctrl, Message{Type: TypeMigrate, ID: id, ...})
SendWrite(k) ==
    /\ Running /\ side = "server"
    /\ t_pc[k] = "registered"
    /\ sent' = [sent EXCEPT ![t_c[k]] = Append(@, t_id[k])]
    /\ t_pc' = [t_pc EXCEPT ![k] = "written"]
    /\ UNCHANGED << side, extVars, kernelVars, serverVars, clientVars, pc, lc, lg, ln, res,
                    crashed, histVars, callVars, peerVars, loopVars, listenVars,
                    connVars, ackMap, chanBuf, readerVars,
                    now, nTerm, t_id, t_c, t_acked, t_conns, t_ack, t_why >>

\* A select without the timer case.
SelectCases_NoTimer(k) ==
    (IF chanBuf[k] = 1 THEN {"ch"} ELSE {})
        \cup (IF done[t_c[k]] THEN {"done"} ELSE {})

\* The cases of SendMigrateAndWait's select that can proceed: <-ch when the
\* channel holds a value, <-c.done when done is closed, <-time.After(timeout)
\* from the moment the timer fires on.  Go takes any one of those that can.
SelectCases(k) ==
    (IF chanBuf[k] = 1 THEN {"ch"} ELSE {})
        \cup (IF done[t_c[k]] THEN {"done"} ELSE {})
        \cup {"timeout"}

\* The select: acked is true for the case <-ch, false for the two others.
SendSelect(k) ==
    /\ Running /\ side = "server"
    /\ t_pc[k] = "written"
    /\ \E case \in SelectCases(k) :
          /\ t_why' = [t_why EXCEPT ![k] = case]
          /\ t_acked' = [t_acked EXCEPT ![k] = (case = "ch")]
          /\ chanBuf' = IF case = "ch" THEN [chanBuf EXCEPT ![k] = 0] ELSE chanBuf
    /\ t_pc' = [t_pc EXCEPT ![k] = "selected"]
    /\ UNCHANGED << side, extVars, kernelVars, serverVars, clientVars, pc, lc, lg, ln, res,
                    crashed, histVars, callVars, peerVars, loopVars, listenVars,
                    connVars, ackMap, readerVars, sent,
                    now, nTerm, t_id, t_c, t_conns, t_ack >>

\* A SendMigrateAndWait that returns without the delete.
Deleted_Never(m, id) == m

\* delete(c.ackMap, id)
Deleted(m, id) == [m EXCEPT ![id] = NoChan]

\* SendMigrateAndWait, second critical section: delete(c.ackMap, id); the call
\* returns wait and acked.
SendUnregister(k) ==
    /\ Running /\ side = "server"
    /\ t_pc[k] = "selected"
    /\ ackMap' = [ackMap EXCEPT ![t_c[k]] = Deleted(@, t_id[k])]
    /\ t_pc' = [t_pc EXCEPT ![k] = "done"]
    /\ UNCHANGED << side, extVars, kernelVars, serverVars, clientVars, pc, lc, lg, ln, res,
                    crashed, histVars, callVars, peerVars, loopVars, listenVars,
                    connVars, chanBuf, readerVars, sent,
                    now, nTerm, t_id, t_c, t_acked, t_conns, t_ack, t_why >>

\* ------------------------------------------- the control stream's codec
\* Text is a sequence of symbols.  A symbol is one character of a field's
\* value (a letter, the quote, the backslash, the newline, the less-than sign,
\* a byte that is no valid UTF-8, the character U+FFFD), a word that stands
\* for a run of letters (the names of the types), or a piece of JSON syntax.
Quote == "\""
Backslash == "\\"
Newline == "\n"
Less == "<"
BadByte == "xFF"
Replacement == "uFFFD"
Chars == {"a", Quote, Backslash, Newline, Less, BadByte, Replacement}
Strs == UNION {[1 .. n -> Chars] : n \in 0 .. MaxStr}

\* const ( TypeHello ... TypeAck ), as the values of a string field.
TypeNames == {<< "hello" >>, << "migrate" >>, << "commit" >>, << "ack" >>}

\* type Message struct, and Message{}.
Message(type, id, client, addr, port, ack) ==
    [Type |-> type, ID |-> id, ClientID |-> client,
     NewAddr |-> addr, NewPort |-> port, AckID |-> ack]
ZeroMessage == Message(<< >>, << >>, << >>, << >>, 0, << >>)

\* The messages given to WriteLine: every type; any text as ID; two values,
\* an absent or a plain and an odd one, of each other field.
Ports == {0, 5243}
Messages ==
    {Message(t, i, c, a, p, k) :
        t \in TypeNames, i \in Strs, c \in {<< >>, << "a" >>},
        a \in {<< "a" >>, << BadByte >>}, p \in Ports,
        k \in {<< >>, << Quote, Newline >>}}

\* The member names of the struct's json tags, each with its colon.
KeyType == "\"type\":"
KeyID == "\"id\":"
KeyClientID == "\"client_id\":"
KeyNewAddr == "\"new_addr\":"
KeyNewPort == "\"new_port\":"
KeyAckID == "\"ack_id\":"
KeyOther == "\"x\":"
StringKeys == {KeyType, KeyID, KeyClientID, KeyNewAddr, KeyAckID}
Keys == StringKeys \cup {KeyNewPort, KeyOther}

\* An encoder that writes every character as it is.
EscapeChar_Raw(c) == << c >>

\* encoding/json's string encoder: the quote, the backslash and the newline
\* are escaped, < is written <, and a byte that is no valid UTF-8 is
\* written as the escape of U+FFFD.
EscapeChar(c) ==
    CASE c = Quote -> << Backslash, Quote >>
      [] c = Backslash -> << Backslash, Backslash >>
      [] c = Newline -> << Backslash, "n" >>
      [] c = Less -> << Backslash, "u003c" >>
      [] c = BadByte -> << Backslash, "ufffd" >>
      [] OTHER -> << c >>

RECURSIVE EncodeChars(_)
EncodeChars(s) ==
    IF s = << >> THEN << >> ELSE EscapeChar(Head(s)) \o EncodeChars(Tail(s))

EncodeString(s) == << Quote >> \o EncodeChars(s) \o << Quote >>

\* A member with `omitempty`: left out when the value is "" or 0.
OmitEmptyString(key, s) ==
    IF s = << >> THEN << >> ELSE << ",", key >> \o EncodeString(s)
OmitEmptyInt(key, n) ==
    IF n = 0 THEN << >> ELSE << ",", key, ToString(n) >>

\* json.Marshal(msg): the members in the order of the struct's fields; type
\* has no omitempty.
Marshal(msg) ==
    << "{", KeyType >> \o EncodeString(msg.Type)
        \o OmitEmptyString(KeyID, msg.ID)
        \o OmitEmptyString(KeyClientID, msg.ClientID)
        \o OmitEmptyString(KeyNewAddr, msg.NewAddr)
        \o OmitEmptyInt(KeyNewPort, msg.NewPort)
        \o OmitEmptyString(KeyAckID, msg.AckID)
        \o << "}" >>

\* w.Write(append(b, '\n'))
WriteLine(stream, msg) == stream \o Marshal(msg) \o << Newline >>

\* The bytes of a symbol, and of a text.
Width(sym) ==
    CASE sym \in {"u003c", "ufffd", "hello"} -> 5
      [] sym = Replacement -> 3
      [] sym = "migrate" -> 7
      [] sym = "commit" -> 6
      [] sym \in {"ack", "bye"} -> 3
      [] sym = "5243" -> 4
      [] sym = KeyType -> 7
      [] sym = KeyID -> 5
      [] sym = KeyClientID -> 12
      [] sym \in {KeyNewAddr, KeyNewPort} -> 11
      [] sym = KeyAckID -> 9
      [] sym = KeyOther -> 4
      [] OTHER -> 1

RECURSIVE ByteLen(_)
ByteLen(s) == IF s = << >> THEN 0 ELSE Width(Head(s)) + ByteLen(Tail(s))

\* s.Buffer(buf, 1024*1024): the largest line, its newline included, the
\* Scanner takes.
MaxScanTokenSize == 1048576

\* bufio.ScanLines on the stream: the line ends at the first newline.
HasLine(stream) == \E i \in 1 .. Len(stream) : stream[i] = Newline
RECURSIVE FirstNewline(_, _)
FirstNewline(stream, i) ==
    IF stream[i] = Newline THEN i ELSE FirstNewline(stream, i + 1)
LineEnd(stream) == FirstNewline(stream, 1)
ScanToken(stream) == SubSeq(stream, 1, LineEnd(stream) - 1)

\* What a parse returns: whether it succeeded, the value, and the place in
\* the text after the value.
Parsed(ok, val, next) == [ok |-> ok, val |-> val, next |-> next]
ParseError == Parsed(FALSE, << >>, 0)

\* The character an escape stands for ("" for no valid escape).
Unescape(code) ==
    CASE code = Quote -> Quote
      [] code = Backslash -> Backslash
      [] code = "n" -> Newline
      [] code = "u003c" -> Less
      [] code = "ufffd" -> Replacement
      [] OTHER -> ""

\* encoding/json's string decoder, from the place after the opening quote:
\* escapes are resolved, a byte that is no valid UTF-8 becomes U+FFFD, a
\* control character is an error.
RECURSIVE ParseString(_, _, _)
ParseString(s, i, acc) ==
    IF i > Len(s) THEN ParseError
    ELSE IF s[i] = Quote THEN Parsed(TRUE, acc, i + 1)
    ELSE IF s[i] = Newline THEN ParseError
    ELSE IF s[i] = Backslash
       THEN IF i + 1 > Len(s) \/ Unescape(s[i + 1]) = ""
               THEN ParseError
               ELSE ParseString(s, i + 2, Append(acc, Unescape(s[i + 1])))
    ELSE IF s[i] = BadByte THEN ParseString(s, i + 1, Append(acc, Replacement))
    ELSE ParseString(s, i + 1, Append(acc, s[i]))

NumTokens == {ToString(n) : n \in Ports}
ParseInt(t) == CHOOSE n \in Ports : ToString(n) = t

\* The value that follows a member name at i - 1: a string or a number.
ParseValue(s, i) ==
    IF i > Len(s) THEN ParseError
    ELSE IF s[i] = Quote THEN ParseString(s, i + 1, << >>)
    ELSE IF s[i] \in NumTokens THEN Parsed(TRUE, ParseInt(s[i]), i + 1)
    ELSE ParseError

\* The message with the member `key` set: a member the struct does not have
\* is ignored.
WithMember(msg, key, val) ==
    CASE key = KeyType -> [msg EXCEPT !.Type = val]
      [] key = KeyID -> [msg EXCEPT !.ID = val]
      [] key = KeyClientID -> [msg EXCEPT !.ClientID = val]
      [] key = KeyNewAddr -> [msg EXCEPT !.NewAddr = val]
      [] key = KeyNewPort -> [msg EXCEPT !.NewPort = val]
      [] key = KeyAckID -> [msg EXCEPT !.AckID = val]
      [] OTHER -> msg

\* A string given to the int field, or a number given to a string field, is
\* an UnmarshalTypeError.
TypeFits(key, s, i) ==
    CASE key \in StringKeys -> s[i] = Quote
      [] key = KeyNewPort -> s[i] # Quote
      [] OTHER -> TRUE

\* The members of an object from the member name at i on, up to the closing
\* brace, which must end the text.
RECURSIVE ParseMembers(_, _, _)
ParseMembers(s, i, msg) ==
    IF i > Len(s) \/ s[i] \notin Keys THEN Parsed(FALSE, ZeroMessage, 0)
    ELSE LET v == ParseValue(s, i + 1) IN
         IF ~v.ok \/ ~TypeFits(s[i], s, i + 1) \/ v.next > Len(s)
            THEN Parsed(FALSE, ZeroMessage, 0)
         ELSE IF s[v.next] = ","
            THEN ParseMembers(s, v.next + 1, WithMember(msg, s[i], v.val))
         ELSE IF s[v.next] = "}" /\ v.next = Len(s)
            THEN Parsed(TRUE, WithMember(msg, s[i], v.val), v.next + 1)
         ELSE Parsed(FALSE, ZeroMessage, 0)

\* json.Unmarshal(line, &msg) with msg the zero Message.
UnmarshalMessage(s) ==
    IF Len(s) < 2 \/ s[1] # "{" THEN Parsed(FALSE, ZeroMessage, 0)
    ELSE IF s[2] = "}"
       THEN Parsed(Len(s) = 2, ZeroMessage, 3)
    ELSE ParseMembers(s, 2, ZeroMessage)

\* What lr.Next() returns: msg, ok, err.
NextResult(msg, ok, err) == [msg |-> msg, ok |-> ok, err |-> err]
NoResult == NextResult(ZeroMessage, FALSE, "none")

\* LineReader.Next on a stream that holds a line.
LineReaderNext(stream) ==
    LET line == ScanToken(stream) IN
    IF ByteLen(line) + 1 > MaxScanTokenSize
       THEN NextResult(ZeroMessage, FALSE, "token too long")
    ELSE LET r == UnmarshalMessage(line) IN
         IF r.ok THEN NextResult(r.val, TRUE, "nil")
         ELSE NextResult(ZeroMessage, TRUE, "bad control message")

\* Lines a peer may put on the stream other than by WriteLine: an empty line,
\* text that is no JSON, an object with a member the struct does not have,
\* a message of a type no constant names, a string as new_port.
RawLines ==
    { << >>,
      << "a" >>,
      << "{", KeyType, Quote, "ack", Quote, ",", KeyOther, Quote, "a", Quote, "}" >>,
      << "{", KeyType, Quote, "bye", Quote, "}" >>,
      << "{", KeyType, Quote, "migrate", Quote, ",", KeyNewPort, Quote, "a", Quote, "}" >> }

\* WriteLine(w, msg) by one end of the stream.
CodecWrite(msg) ==
    /\ cd_pc = "idle"
    /\ cd_pc' = "written"
    /\ cd_msg' = msg
    /\ cd_stream' = WriteLine(cd_stream, msg)
    /\ UNCHANGED << cd_res, notCodec >>

\* A line written by a peer that does not use WriteLine.
CodecFeed(line) ==
    /\ cd_pc = "idle"
    /\ cd_pc' = "fed"
    /\ cd_stream' = cd_stream \o line \o << Newline >>
    /\ UNCHANGED << cd_msg, cd_res, notCodec >>

\* lr.Next() by the other end.
CodecNext ==
    /\ cd_pc \in {"written", "fed"}
    /\ HasLine(cd_stream)
    /\ cd_pc' = IF cd_pc = "written" THEN "read" ELSE "readfed"
    /\ LET end == LineEnd(cd_stream) IN
          /\ cd_res' = LineReaderNext(SubSeq(cd_stream, 1, end))
          /\ cd_stream' = SubSeq(cd_stream, end + 1, Len(cd_stream))
    /\ UNCHANGED << cd_msg, notCodec >>

\* ------------------------------------- the locks of SwappableUDPConn
\* The goroutines that call the endpoint's methods, each method as the path
\* of its calls on s.mu (a Mutex) and s.peerMu (a RWMutex): a step is taken
\* from a place in the method, does one thing (a Lock, an Unlock, or code
\* that touches no lock: a test, the kernel's read or write, a return) and
\* leaves the goroutine at another place.  Where the code branches on data,
\* every branch is a step.
LockProcs == {"g1", "g2", "g3"}
NoHolder == "free"
T(from, act, to) == [from |-> from, act |-> act, to |-> to]

\* SetPeer: s.peerMu.Lock(); s.realPeer = peer; s.peerMu.Unlock().
SetPeerSteps ==
    { T("idle", "go", "SetPeer:lock"),
      T("SetPeer:lock", "peerMu.Lock", "SetPeer:held"),
      T("SetPeer:held", "peerMu.Unlock", "idle") }

\* ArmPeer: s.peerMu.Lock(); s.armedPeer = peer; s.peerMu.Unlock().
ArmPeerSteps ==
    { T("idle", "go", "ArmPeer:lock"),
      T("ArmPeer:lock", "peerMu.Lock", "ArmPeer:held"),
      T("ArmPeer:held", "peerMu.Unlock", "idle") }

\* A CutoverToArmedPeer that returns false without its Unlock.
CutoverSteps_NoDefer ==
    { T("idle", "go", "Cutover:lock"),
      T("Cutover:lock", "peerMu.Lock", "Cutover:held"),
      T("Cutover:held", "go", "idle"),
      T("Cutover:held", "peerMu.Unlock", "idle") }

\* CutoverToArmedPeer: s.peerMu.Lock(); defer s.peerMu.Unlock(): each of its
\* three returns runs the Unlock.
CutoverSteps ==
    { T("idle", "go", "Cutover:lock"),
      T("Cutover:lock", "peerMu.Lock", "Cutover:held"),
      T("Cutover:held", "peerMu.Unlock", "idle") }

\* getPeer, called at place `from` and returning to place `to`:
\* s.peerMu.RLock(); p := s.realPeer; s.peerMu.RUnlock().
getPeerSteps(from, to) ==
    { T(from, "peerMu.RLock", from \o "/getPeer"),
      T(from \o "/getPeer", "peerMu.RUnlock", to) }

\* The snapshot s.mu.Lock(); c := s.conn; g := s.gen; s.mu.Unlock(), and the
\* comparison s.mu.Lock(); same := ...; s.mu.Unlock(), at place `from`.
MuSection(from, to) ==
    { T(from, "mu.Lock", from \o "/mu"),
      T(from \o "/mu", "mu.Unlock", to) }

\* ReadFrom: the snapshot; return if c == nil; the kernel's read; on success
\* getPeer(), then the filter's continue or a return; on a closing error the
\* comparison, then continue or return; on another error return.
ReadFromSteps ==
    { T("idle", "go", "ReadFrom:top") }
        \cup MuSection("ReadFrom:top", "ReadFrom:snap")
        \cup { T("ReadFrom:snap", "go", "idle"),
               T("ReadFrom:snap", "go", "ReadFrom:ok"),
               T("ReadFrom:snap", "go", "ReadFrom:closing"),
               T("ReadFrom:snap", "go", "idle") }
        \cup getPeerSteps("ReadFrom:ok", "ReadFrom:filter")
        \cup { T("ReadFrom:filter", "go", "ReadFrom:top"),
               T("ReadFrom:filter", "go", "idle") }
        \cup MuSection("ReadFrom:closing", "ReadFrom:same")
        \cup { T("ReadFrom:same", "go", "ReadFrom:top"),
               T("ReadFrom:same", "go", "idle") }

\* WriteTo: getPeer(); return if peer == nil; the snapshot; return if
\* c == nil; the kernel's write; return, or on a closing error the comparison,
\* then continue or return.
WriteToSteps ==
    { T("idle", "go", "WriteTo:peer") }
        \cup getPeerSteps("WriteTo:peer", "WriteTo:got")
        \cup { T("WriteTo:got", "go", "idle"),
               T("WriteTo:got", "go", "WriteTo:top") }
        \cup MuSection("WriteTo:top", "WriteTo:snap")
        \cup { T("WriteTo:snap", "go", "idle"),
               T("WriteTo:snap", "go", "WriteTo:closing") }
        \cup MuSection("WriteTo:closing", "WriteTo:same")
        \cup { T("WriteTo:same", "go", "WriteTo:top"),
               T("WriteTo:same", "go", "idle") }

\* RebindLocal: net.ListenUDP, return on its error; s.mu.Lock(); with
\* old == nil s.mu.Unlock(), newConn.Close() and return; otherwise the swap,
\* s.mu.Unlock(), old.Close() and return.
RebindLocalSteps ==
    { T("idle", "go", "RebindLocal:listen"),
      T("RebindLocal:listen", "go", "idle"),
      T("RebindLocal:listen", "go", "RebindLocal:lock"),
      T("RebindLocal:lock", "mu.Lock", "RebindLocal:held"),
      T("RebindLocal:held", "mu.Unlock", "RebindLocal:closeNew"),
      T("RebindLocal:held", "mu.Unlock", "RebindLocal:closeOld"),
      T("RebindLocal:closeNew", "go", "idle"),
      T("RebindLocal:closeOld", "go", "idle") }

\* Close: s.mu.Lock(); defer s.mu.Unlock(): both returns run the Unlock.
CloseSteps ==
    { T("idle", "go", "Close:lock"),
      T("Close:lock", "mu.Lock", "Close:held"),
      T("Close:held", "mu.Unlock", "idle") }

LockTable ==
    SetPeerSteps \cup ArmPeerSteps \cup CutoverSteps \cup ReadFromSteps
        \cup WriteToSteps \cup RebindLocalSteps \cup CloseSteps

\* sync.Mutex and sync.RWMutex: when a step's lock call can return.
CanTake(p, act) ==
    CASE act = "mu.Lock" -> lk_mu = NoHolder
      [] act = "peerMu.Lock" -> lk_w = NoHolder /\ lk_r = {}
      [] act = "peerMu.RLock" -> lk_w = NoHolder
      [] OTHER -> TRUE

\* An Unlock of a lock the goroutine does not hold is a fatal error.
Misuse(p, act) ==
    CASE act = "mu.Unlock" -> lk_mu # p
      [] act = "peerMu.Unlock" -> lk_w # p
      [] act = "peerMu.RUnlock" -> p \notin lk_r
      [] OTHER -> FALSE

\* One step of a goroutine in a method of the endpoint.
LockStep(p, t) ==
    /\ lk_pc[p] = t.from
    /\ CanTake(p, t.act)
    /\ ~lk_fatal
    /\ lk_pc' = [lk_pc EXCEPT ![p] = t.to]
    /\ lk_fatal' = Misuse(p, t.act)
    /\ lk_mu' = CASE t.act = "mu.Lock" -> p
                  [] t.act = "mu.Unlock" -> NoHolder
                  [] OTHER -> lk_mu
    /\ lk_w' = CASE t.act = "peerMu.Lock" -> p
                 [] t.act = "peerMu.Unlock" -> NoHolder
                 [] OTHER -> lk_w
    /\ lk_r' = CASE t.act = "peerMu.RLock" -> lk_r \cup {p}
                 [] t.act = "peerMu.RUnlock" -> lk_r \ {p}
                 [] OTHER -> lk_r
    /\ UNCHANGED notLock

\* ------------------------------------- the orchestrator's restore step
\* Control's doMigrate, step "restore into B": the restore, the SIGUSR2 to the
\* restored process, the sleep and the commit.  A step whose function returns
\* an error panics: the migration is aborted.
CommitAddrs == {"", "127.0.0.1:7360"}

\* parseCommonFlags: -commit-addr.
OrchFlags(addr) ==
    /\ or_pc = "flags"
    /\ or_pc' = "pid"
    /\ or_addr' = addr
    /\ UNCHANGED << or_warn, sigq, hookVars, cm, notOrch >>

\* One of the calls of the step that return an error on failure, in order:
\* podmanStatePID, the nsenter'ed criu restore, readPIDFile, sudoKill0.
OrchCalls == << "pid", "restore", "pidfile", "alive", "usr2" >>
OrchCall(i, ok) ==
    /\ i \in 1 .. 4
    /\ or_pc = OrchCalls[i]
    /\ or_pc' = IF ok THEN OrchCalls[i + 1] ELSE "panic"
    /\ UNCHANGED << or_addr, or_warn, sigq, hookVars, cm, notOrch >>

\* sudoKill(cfg.restoredPID, syscall.SIGUSR2): the signal goes to the channel
\* of InstallRebindOnUSR2 (make(chan os.Signal, 2)); the call returns when the
\* signal is sent, not when it is handled.
OrchSignal(ok) ==
    /\ or_pc = "usr2"
    /\ IF ok
          THEN /\ or_pc' = "sleep"
               /\ sigq' = IF sigq < 2 THEN sigq + 1 ELSE sigq
          ELSE /\ or_pc' = "panic"
               /\ UNCHANGED sigq
    /\ UNCHANGED << or_addr, or_warn, hookVars, cm, notOrch >>

\* time.Sleep(10 * time.Millisecond): the orchestrator goes on when the time
\* has passed, whatever the restored process has done by then.
OrchSleep ==
    /\ or_pc = "sleep"
    /\ or_pc' = "commit"
    /\ UNCHANGED << or_addr, or_warn, sigq, hookVars, cm, notOrch >>

\* sendCommit: nothing is sent to an empty address; net.Dial or c.Write may
\* fail; otherwise the datagram is on its way to the client's listener.  An
\* error is a warning: the step returns nil.
OrchCommit(outcome) ==
    /\ or_pc = "commit"
    /\ or_pc' = "wait"
    /\ IF or_addr = ""
          THEN outcome = "sent" /\ UNCHANGED << or_warn, cm >>
       ELSE IF outcome = "sent"
          THEN cm' = "sent" /\ UNCHANGED or_warn
       ELSE or_warn' = TRUE /\ UNCHANGED cm
    /\ UNCHANGED << or_addr, sigq, hookVars, notOrch >>

\* Step "wait for the client": the client's first echo or 25 seconds.
OrchWait ==
    /\ or_pc = "wait"
    /\ or_pc' = "finished"
    /\ UNCHANGED << or_addr, or_warn, sigq, hookVars, cm, notOrch >>

\* InstallRebindOnUSR2's goroutine: for range ch { _ = m.Rebind() }.
HookRecv ==
    /\ hk_pc = "wait"
    /\ sigq > 0
    /\ sigq' = sigq - 1
    /\ hk_pc' = "listen"
    /\ UNCHANGED << or_pc, or_addr, or_warn, hk_bound, hk_err, cm, notOrch >>

\* Rebind: net.ListenUDP binds the new socket, or fails and Rebind returns
\* the error, which the goroutine drops.
HookListen(ok) ==
    /\ hk_pc = "listen"
    /\ IF ok
          THEN hk_pc' = "swap" /\ hk_bound' = TRUE /\ UNCHANGED hk_err
          ELSE hk_pc' = "wait" /\ hk_err' = TRUE /\ UNCHANGED hk_bound
    /\ UNCHANGED << or_pc, or_addr, or_warn, sigq, cm, notOrch >>

\* Rebind: the new socket is installed under the mutex.
HookSwap ==
    /\ hk_pc = "swap"
    /\ hk_pc' = "closeOld"
    /\ UNCHANGED << or_pc, or_addr, or_warn, sigq, hk_bound, hk_err, cm, notOrch >>

\* Rebind: the old socket is closed outside the mutex, and Rebind returns.
HookCloseOld ==
    /\ hk_pc = "closeOld"
    /\ hk_pc' = "wait"
    /\ UNCHANGED << or_pc, or_addr, or_warn, sigq, hk_bound, hk_err, cm, notOrch >>

\* The commit datagram reaches the client's commit listener, which calls
\* cutover(), or is lost.
CommitArrive(lost) ==
    /\ cm = "sent"
    /\ cm' = IF lost THEN "lost" ELSE "cutover"
    /\ UNCHANGED << or_pc, or_addr, or_warn, sigq, hookVars, notOrch >>

\* The client's first datagram after the cutover goes to B's port: it is
\* taken by the new socket if that is bound, and answered by nobody if not.
ClientFirstSend ==
    /\ cm = "cutover"
    /\ cm' = IF hk_bound THEN "served" ELSE "unserved"
    /\ UNCHANGED << or_pc, or_addr, or_warn, sigq, hookVars, notOrch >>

\* ------------------------------- the earlier wrapper, MigratablePacketConn
\* Two versions of it are in the repository: pre-dump/server, whose ReadFrom
\* takes the read lock and returns what the socket's read returns, and
\* quicriu/server, whose ReadFrom takes the write lock and goes round again
\* when the read fails while isMigrating is set.  In both, the condition
\* variable is sync.NewCond(&w.mu): its Wait unlocks and locks w.mu for
\* writing.
Variants == {"pre-dump", "quicriu"}
PReaders == {"q1", "q2"}
NoRaw == 0

\* What a ReadFrom returned: "data" with the socket it was read from, "error"
\* (the socket was closed), "empty" (0, nil, nil); whether the call returned
\* between a PrepareForCheckpoint and the Rebind that follows it; whether the
\* call was in progress at some moment of such a window.
PResult(kind, s, inWindow, overlap) ==
    [kind |-> kind, sock |-> s, inWindow |-> inWindow, overlap |-> overlap]
NoPResult == PResult("none", NoRaw, FALSE, FALSE)

PReturn(p, kind, s) ==
    /\ mp_pc' = [mp_pc EXCEPT ![p] = "idle"]
    /\ mp_res' = [mp_res EXCEPT ![p] = PResult(kind, s, mp_mig, mp_over[p] \/ mp_mig)]
    /\ mp_conn' = [mp_conn EXCEPT ![p] = NoRaw]

\* NewMigratablePacketConn of one of the two versions.
PNew(v) ==
    /\ mp_variant = "none"
    /\ mp_variant' = v
    /\ UNCHANGED << mp_raw, mp_open, mp_mig, mp_w, mp_r, mp_wait, mp_pc, mp_conn,
                    mp_res, mp_over, mp_cycles, mp_fatal, notLegacy >>

\* ReadFrom begins: w.mu.RLock() (pre-dump) or w.mu.Lock() (quicriu).
PReadLock(p) ==
    /\ mp_variant # "none" /\ ~mp_fatal
    /\ mp_pc[p] \in {"idle", "top"}
    /\ mp_w = NoHolder
    /\ IF mp_variant = "pre-dump"
          THEN mp_r' = mp_r \cup {p} /\ UNCHANGED mp_w
          ELSE mp_r = {} /\ mp_w' = p /\ UNCHANGED mp_r
    /\ mp_pc' = [mp_pc EXCEPT ![p] = "check"]
    /\ mp_over' = [mp_over EXCEPT ![p] = IF mp_pc[p] = "idle" THEN mp_mig ELSE @ \/ mp_mig]
    /\ mp_res' = [mp_res EXCEPT ![p] = IF mp_pc[p] = "idle" THEN NoPResult ELSE @]
    /\ UNCHANGED << mp_variant, mp_raw, mp_open, mp_mig, mp_wait, mp_conn,
                    mp_cycles, mp_fatal, notLegacy >>

\* for w.isMigrating { w.cond.Wait() }; conn := w.rawConn; the unlock.
\* Wait begins with c.L.Unlock(), the Unlock of w.mu for writing: with only
\* the read lock held that is the runtime's fatal error "Unlock of unlocked
\* RWMutex".
PReadCheck(p) ==
    /\ ~mp_fatal
    /\ mp_pc[p] = "check"
    /\ IF mp_mig
          THEN IF mp_w = p
                  THEN /\ mp_w' = NoHolder
                       /\ mp_wait' = mp_wait \cup {p}
                       /\ mp_pc' = [mp_pc EXCEPT ![p] = "waiting"]
                       /\ UNCHANGED << mp_r, mp_conn, mp_fatal >>
                  ELSE /\ mp_fatal' = TRUE
                       /\ UNCHANGED << mp_w, mp_r, mp_wait, mp_pc, mp_conn >>
          ELSE /\ mp_conn' = [mp_conn EXCEPT ![p] = mp_raw]
               /\ mp_w' = IF mp_w = p THEN NoHolder ELSE mp_w
               /\ mp_r' = mp_r \ {p}
               /\ mp_pc' = [mp_pc EXCEPT ![p] = "have"]
               /\ UNCHANGED << mp_wait, mp_fatal >>
    /\ UNCHANGED << mp_variant, mp_raw, mp_open, mp_mig, mp_res, mp_over,
                    mp_cycles, notLegacy >>

\* Wait ends: after the Broadcast, c.L.Lock() and the loop's test again.
PReadWake(p) ==
    /\ ~mp_fatal
    /\ mp_pc[p] = "woken"
    /\ mp_w = NoHolder /\ mp_r = {}
    /\ mp_w' = p
    /\ mp_pc' = [mp_pc EXCEPT ![p] = "check"]
    /\ UNCHANGED << mp_variant, mp_raw, mp_open, mp_mig, mp_r, mp_wait, mp_conn,
                    mp_res, mp_over, mp_cycles, mp_fatal, notLegacy >>

\* if conn == nil: pre-dump sleeps and returns 0, nil, nil; quicriu sleeps and
\* goes round again.  Otherwise the read on conn.
PReadHave(p) ==
    /\ ~mp_fatal
    /\ mp_pc[p] = "have"
    /\ IF mp_conn[p] # NoRaw
          THEN /\ mp_pc' = [mp_pc EXCEPT ![p] = "read"]
               /\ UNCHANGED << mp_res, mp_conn >>
       ELSE IF mp_variant = "pre-dump"
          THEN PReturn(p, "empty", NoRaw)
       ELSE /\ mp_pc' = [mp_pc EXCEPT ![p] = "top"]
            /\ UNCHANGED << mp_res, mp_conn >>
    /\ UNCHANGED << mp_variant, mp_raw, mp_open, mp_mig, mp_w, mp_r, mp_wait,
                    mp_over, mp_cycles, mp_fatal, notLegacy >>

\* conn.ReadFrom(p) returns: a datagram of an open socket, or the error of a
\* closed one.  pre-dump returns either; quicriu goes on to look at
\* isMigrating after an error.
PReadKernel(p) ==
    /\ ~mp_fatal
    /\ mp_pc[p] = "read"
    /\ IF mp_conn[p] \in mp_open
          THEN PReturn(p, "data", mp_conn[p])
       ELSE IF mp_variant = "pre-dump"
          THEN PReturn(p, "error", mp_conn[p])
       ELSE /\ mp_pc' = [mp_pc EXCEPT ![p] = "failed"]
            /\ UNCHANGED << mp_res, mp_conn >>
    /\ UNCHANGED << mp_variant, mp_raw, mp_open, mp_mig, mp_w, mp_r, mp_wait,
                    mp_over, mp_cycles, mp_fatal, notLegacy >>

\* quicriu: w.mu.RLock(); isMigrating := w.isMigrating; w.mu.RUnlock(); if
\* isMigrating { continue }; return n, addr, err.
PReadFailed(p) ==
    /\ ~mp_fatal
    /\ mp_pc[p] = "failed"
    /\ mp_w = NoHolder
    /\ IF mp_mig
          THEN /\ mp_pc' = [mp_pc EXCEPT ![p] = "top"]
               /\ mp_over' = [mp_over EXCEPT ![p] = TRUE]
               /\ UNCHANGED << mp_res, mp_conn >>
          ELSE PReturn(p, "error", mp_conn[p]) /\ UNCHANGED mp_over
    /\ UNCHANGED << mp_variant, mp_raw, mp_open, mp_mig, mp_w, mp_r, mp_wait,
                    mp_cycles, mp_fatal, notLegacy >>

\* PrepareForCheckpoint, under w.mu.Lock(): isMigrating = true; the socket is
\* closed and rawConn set to nil.
PrepareForCheckpoint ==
    /\ mp_variant # "none" /\ ~mp_fatal
    /\ ~mp_mig /\ mp_cycles < MaxCycles
    /\ mp_w = NoHolder /\ mp_r = {}
    /\ mp_mig' = TRUE
    /\ mp_open' = mp_open \ {mp_raw}
    /\ mp_raw' = NoRaw
    /\ mp_cycles' = mp_cycles + 1
    /\ mp_over' = [p \in PReaders |-> mp_over[p] \/ mp_pc[p] # "idle"]
    /\ UNCHANGED << mp_variant, mp_w, mp_r, mp_wait, mp_pc, mp_conn, mp_res,
                    mp_fatal, notLegacy >>

\* Rebind, under w.mu.Lock(): net.ListenPacket; on its error return it; else
\* rawConn = newConn, isMigrating = false, w.cond.Broadcast().
PRebind(ok) ==
    /\ mp_variant # "none" /\ ~mp_fatal
    /\ mp_mig
    /\ mp_w = NoHolder /\ mp_r = {}
    /\ IF ok
          THEN /\ mp_raw' = mp_cycles + 1
               /\ mp_open' = mp_open \cup {mp_cycles + 1}
               /\ mp_mig' = FALSE
               /\ mp_pc' = [p \in PReaders |->
                              IF p \in mp_wait THEN "woken" ELSE mp_pc[p]]
               /\ mp_wait' = {}
          ELSE UNCHANGED << mp_raw, mp_open, mp_mig, mp_pc, mp_wait >>
    /\ UNCHANGED << mp_variant, mp_w, mp_r, mp_conn, mp_res, mp_over,
                    mp_cycles, mp_fatal, notLegacy >>

\* ------------------------------------ the reconnect-mode client, Manager
\* Run's loop and, per session, the goroutine of controlLoop.  A target is the
\* string "host:port".
DefaultTarget == "127.0.0.1:5242"
NoTarget == ""
MgMsgs == { Msg("migrate", "m-1", "10.0.0.2", 5242),
            Msg("migrate", "m-2", "10.0.0.3", 5242),
            Msg("bye", "", "", 0) }

\* controlLoop: newTarget := fmt.Sprintf("%s:%d", msg.NewAddr, msg.NewPort).
MigrateTarget(msg) == msg.host \o ":" \o ToString(msg.port)

\* controlLoop: select { case reconnect <- newTarget: default: } on a channel
\* of capacity 1.
OfferTarget(ch, t) == IF Len(ch) < 1 THEN Append(ch, t) ELSE ch

\* New(...) and the caller's choice of Transparent; Run's defaults.
MgNew(transparent) ==
    /\ mg_pc = "new"
    /\ mg_pc' = "dial"
    /\ mg_transparent' = transparent
    /\ mg_target' = DefaultTarget
    /\ UNCHANGED << mg_ctrl, mg_reconnect, mg_prefTarget, mg_prefConn,
                    mg_sessions, mg_msgs, mg_last, mg_dialed, notManager >>

\* Run, top of the loop: takePrefetch(m.Target), else dialControl; on an
\* error sleep and go round; else the session begins: a fresh reconnect
\* channel, the goroutine of controlLoop, and the run callback.
MgDial(ok) ==
    /\ mg_pc = "dial"
    /\ mg_sessions < MaxSessions
    /\ LET taken == mg_prefConn /\ mg_prefTarget = mg_target
       IN  /\ IF taken
                 THEN mg_prefConn' = FALSE /\ mg_prefTarget' = NoTarget
                 ELSE UNCHANGED << mg_prefConn, mg_prefTarget >>
           /\ IF taken \/ ok
                 THEN /\ mg_pc' = "run"
                      /\ mg_ctrl' = "running"
                      /\ mg_reconnect' = << >>
                      /\ mg_sessions' = mg_sessions + 1
                      /\ mg_msgs' = 0
                      /\ mg_last' = NoTarget
                      /\ mg_dialed' = mg_target
                 ELSE UNCHANGED << mg_pc, mg_ctrl, mg_reconnect, mg_sessions,
                                   mg_msgs, mg_last, mg_dialed >>
    /\ UNCHANGED << mg_target, mg_transparent, notManager >>

\* The run callback returns; Run unbinds the sender, closes the session and
\* waits for ctrlDone.
MgRunReturns ==
    /\ mg_pc = "run"
    /\ mg_pc' = "closing"
    /\ UNCHANGED << mg_target, mg_transparent, mg_ctrl, mg_reconnect, mg_prefTarget,
                    mg_prefConn, mg_sessions, mg_msgs, mg_last, mg_dialed, notManager >>

\* controlLoop reads one message.  Another type: continue.  A migrate: the
\* ack; in Transparent mode continue; else startPrefetch(newTarget) and the
\* offer to reconnect.
MgCtrlRecv(msg) ==
    /\ mg_pc \in {"run", "closing"}
    /\ mg_ctrl = "running"
    /\ mg_msgs < MaxCtrlMsgs
    /\ mg_msgs' = mg_msgs + 1
    /\ IF msg.type # "migrate"
          THEN UNCHANGED << mg_reconnect, mg_prefTarget, mg_prefConn, mg_last >>
          ELSE /\ mg_last' = MigrateTarget(msg)
               /\ IF mg_transparent
                     THEN UNCHANGED << mg_reconnect, mg_prefTarget, mg_prefConn >>
                     ELSE /\ mg_reconnect' = OfferTarget(mg_reconnect, MigrateTarget(msg))
                          /\ mg_prefTarget' = MigrateTarget(msg)
                          /\ mg_prefConn' = (mg_prefConn /\ mg_prefTarget = MigrateTarget(msg))
    /\ UNCHANGED << mg_target, mg_transparent, mg_pc, mg_ctrl, mg_sessions,
                    mg_dialed, notManager >>

\* controlLoop returns: lr.Next gave an error or the end of the stream (the
\* server closed it, or Run closed the session).
MgCtrlEnd ==
    /\ mg_pc \in {"run", "closing"}
    /\ mg_ctrl = "running"
    /\ mg_ctrl' = "done"
    /\ UNCHANGED << mg_target, mg_transparent, mg_pc, mg_reconnect, mg_prefTarget,
                    mg_prefConn, mg_sessions, mg_msgs, mg_last, mg_dialed, notManager >>

\* The prefetch goroutine's dial succeeded and prefetchTarget is still its
\* target: it publishes the connection.
MgPrefetchReady ==
    /\ mg_prefTarget # NoTarget /\ ~mg_prefConn
    /\ mg_prefConn' = TRUE
    /\ UNCHANGED << mg_target, mg_transparent, mg_pc, mg_ctrl, mg_reconnect,
                    mg_prefTarget, mg_sessions, mg_msgs, mg_last, mg_dialed, notManager >>

\* Run, after <-ctrlDone: select { case nt := <-reconnect: if nt != "" {
\* m.Target = nt }  default: }.
MgSelect ==
    /\ mg_pc = "closing"
    /\ mg_ctrl = "done"
    /\ mg_pc' = "dial"
    /\ IF mg_reconnect # << >> /\ Head(mg_reconnect) # NoTarget
          THEN mg_target' = Head(mg_reconnect)
          ELSE UNCHANGED mg_target
    /\ mg_reconnect' = << >>
    /\ UNCHANGED << mg_transparent, mg_ctrl, mg_prefTarget, mg_prefConn,
                    mg_sessions, mg_msgs, mg_last, mg_dialed, notManager >>

\* ---------------------------------------------------------- the Outbox
\* Every method holds o.mu from its first access to its return, so a call is
\* one step.  A message is a sequence of bytes.
DefaultMaxMessages == 4096
DefaultMaxBytes == 4194304
OptMessages == {0, 2}
OptBytes == {0, 3}
OutboxMsgs == { << >>, << 1 >>, << 2, 2 >>, << 4, 4, 4, 4 >> }
DrainArgs == {0, 1, 3}

RECURSIVE SumLen(_)
SumLen(q) == IF q = << >> THEN 0 ELSE Len(Head(q)) + SumLen(Tail(q))

\* The last call: its name, argument, what it returned, and the queue, the
\* tracked byte count and closed as they were before it.
ObCall(name, arg, ret, q, bytes, closed) ==
    [op |-> name, arg |-> arg, ret |-> ret, q |-> q, bytes |-> bytes, closed |-> closed]
NoObCall == ObCall("none", << >>, "none", << >>, 0, FALSE)

\* NewOutbox: a bound of the options that is <= 0 becomes the default.
NewOutbox(mm, mb, dropOldest) ==
    /\ ~ob_made
    /\ ob_made' = TRUE
    /\ ob_maxMessages' = IF mm <= 0 THEN DefaultMaxMessages ELSE mm
    /\ ob_maxBytes' = IF mb <= 0 THEN DefaultMaxBytes ELSE mb
    /\ ob_dropOld' = dropOldest
    /\ UNCHANGED << ob_closed, ob_q, ob_qBytes, ob_ops, ob_last, notOutbox >>

\* Close.
ObClose ==
    /\ ob_made /\ ~ob_closed
    /\ ob_closed' = TRUE
    /\ ob_last' = ObCall("Close", << >>, "none", ob_q, ob_qBytes, ob_closed)
    /\ UNCHANGED << ob_made, ob_maxMessages, ob_maxBytes, ob_dropOld, ob_q,
                    ob_qBytes, ob_ops, notOutbox >>

\* Enqueue's loop "make room": while the message does not fit, return
\* ErrOutboxFull without dropOld, stop on an empty queue, else drop the
\* oldest message and take its length off qBytes.
RECURSIVE MakeRoom(_, _, _)
MakeRoom(q, bytes, n) ==
    IF (Len(q) + 1 > ob_maxMessages) \/ (bytes + n > ob_maxBytes)
       THEN IF ~ob_dropOld THEN [full |-> TRUE, q |-> q, bytes |-> bytes]
            ELSE IF Len(q) = 0 THEN [full |-> FALSE, q |-> q, bytes |-> bytes]
            ELSE MakeRoom(Tail(q), bytes - Len(Head(q)), n)
       ELSE [full |-> FALSE, q |-> q, bytes |-> bytes]

\* Enqueue(b).
Enqueue(b) ==
    /\ ob_made /\ ob_ops < MaxOps
    /\ ob_ops' = ob_ops + 1
    /\ LET room == MakeRoom(ob_q, ob_qBytes, Len(b))
           ret == IF Len(b) = 0 THEN "nil"
                  ELSE IF ob_closed THEN "closed"
                  ELSE IF Len(b) > ob_maxBytes THEN "ErrOutboxFull"
                  ELSE IF room.full THEN "ErrOutboxFull"
                  ELSE "nil"
       IN  /\ ob_last' = ObCall("Enqueue", b, ret, ob_q, ob_qBytes, ob_closed)
           /\ IF ret = "nil" /\ Len(b) > 0
                 THEN /\ ob_q' = Append(room.q, b)
                      /\ ob_qBytes' = room.bytes + Len(b)
                 ELSE UNCHANGED << ob_q, ob_qBytes >>
    /\ UNCHANGED << ob_made, ob_maxMessages, ob_maxBytes, ob_dropOld, ob_closed,
                    notOutbox >>

\* Drain: what comes off qBytes for the items taken.
DrainedBytes_None(items) == 0
DrainedBytes(items) == SumLen(items)

\* Drain(max).
Drain(max) ==
    /\ ob_made
    /\ LET n == IF max <= 0 \/ max > Len(ob_q) THEN Len(ob_q) ELSE max
           items == SubSeq(ob_q, 1, n)
       IN  /\ ob_q' = SubSeq(ob_q, n + 1, Len(ob_q))
           /\ ob_qBytes' = ob_qBytes - DrainedBytes(items)
           /\ ob_last' = ObCall("Drain", << >>, items, ob_q, ob_qBytes, ob_closed)
    /\ UNCHANGED << ob_made, ob_maxMessages, ob_maxBytes, ob_dropOld, ob_closed,
                    ob_ops, notOutbox >>

\* ------------------------------------------------------------ specification
\* ListenMigratableUDP("udp", ListenAddr) on the server, or
\* NewSwappableUDPConn("udp", ClientAddr, ...) on the client, has returned
\* the endpoint: the first socket is bound and gen is 1.
Init ==
    /\ side \in {"server", "client"}
    /\ sock = [s \in Socks |->
                 IF s = 1
                    THEN BoundSock(IF side = "server" THEN ListenAddr ELSE ClientAddr)
                    ELSE FreeSock]
    /\ nDelivered = 0
    /\ m_conn = IF side = "server" THEN 1 ELSE NIL
    /\ m_gen = IF side = "server" THEN InitGen ELSE 0
    /\ s_conn = IF side = "client" THEN 1 ELSE NIL
    /\ s_gen = IF side = "client" THEN InitGen ELSE 0
    /\ s_laddr = IF side = "client" THEN ClientAddr ELSE NoAddr
    /\ pc = [p \in Procs |-> "idle"]
    /\ op = [p \in Procs |-> "none"]
    /\ lc = [p \in Procs |-> NIL]
    /\ lg = [p \in Procs |-> 0]
    /\ ln = [p \in Procs |-> NIL]
    /\ res = [p \in Procs |-> NoRes]
    /\ crashed = FALSE
    /\ installed = << 1 >>
    /\ closedEver = FALSE
    /\ retried = [p \in Procs |-> FALSE]
    /\ firstSock = [p \in Procs |-> NIL]
    /\ postClose = [p \in Procs |-> FALSE]
    /\ nRebindOK = 0
    /\ firstClose = "none"
    /\ realPeer = IF side = "client" THEN Target ELSE NoPeer
    /\ armedPeer = NoPeer
    /\ fakePeer = IF side = "client" THEN Target ELSE NoPeer
    /\ srcq = [s \in Socks |-> << >>]
    /\ lfrom = [p \in CReaders |-> NoPeer]
    /\ lpeer = [p \in CWriters |-> NoPeer]
    /\ lastPeerOp = NoPeerOp
    /\ committed = NoPeer
    /\ io = [p \in CReaders \cup CWriters |-> NoIO]
    /\ cl_pc = "next"
    /\ cl_msg = NoMsg
    /\ onceDone = FALSE
    /\ migrateSeen = "open"
    /\ acks = << >>
    /\ cl_seen = << >>
    /\ cl_last = NoHandled
    /\ ls_state = "listening"
    /\ ls_sent = 0
    /\ ls_last = NoDgram
    /\ conn = [c \in Conns |-> "none"]
    /\ cur = NoConn
    /\ ackMap = [c \in Conns |-> [i \in Ids |-> NoChan]]
    /\ chanBuf = [k \in Chans |-> 0]
    /\ done = [c \in Conns |-> FALSE]
    /\ rd_pc = [c \in Conns |-> "off"]
    /\ rd_id = [c \in Conns |-> NoId]
    /\ rd_ch = [c \in Conns |-> NoChan]
    /\ sent = [c \in Conns |-> << >>]
    /\ now = 0
    /\ nTerm = 0
    /\ t_pc = [k \in Terms |-> "idle"]
    /\ t_id = [k \in Terms |-> NoId]
    /\ t_c = [k \in Terms |-> NoConn]
    /\ t_acked = [k \in Terms |-> FALSE]
    /\ t_conns = [k \in Terms |-> {}]
    /\ t_ack = [k \in Terms |-> FALSE]
    /\ t_why = [k \in Terms |-> "none"]
    /\ cd_pc = "idle"
    /\ cd_msg = ZeroMessage
    /\ cd_stream = << >>
    /\ cd_res = NoResult
    /\ cl_end = "none"
    /\ rd_end = [c \in Conns |-> "none"]
    /\ rd_skip = [c \in Conns |-> FALSE]
    /\ ae_a = NoPeer
    /\ ae_b = NoPeer
    /\ ae_eq = FALSE
    /\ ae_rev = FALSE
    /\ lk_pc = [p \in LockProcs |-> "idle"]
    /\ lk_mu = NoHolder
    /\ lk_w = NoHolder
    /\ lk_r = {}
    /\ lk_fatal = FALSE
    /\ or_pc = "flags"
    /\ or_addr = ""
    /\ or_warn = FALSE
    /\ sigq = 0
    /\ hk_pc = "wait"
    /\ hk_bound = FALSE
    /\ hk_err = FALSE
    /\ cm = "none"
    /\ mp_variant = "none"
    /\ mp_raw = 1
    /\ mp_open = {1}
    /\ mp_mig = FALSE
    /\ mp_w = NoHolder
    /\ mp_r = {}
    /\ mp_wait = {}
    /\ mp_pc = [p \in PReaders |-> "idle"]
    /\ mp_conn = [p \in PReaders |-> NoRaw]
    /\ mp_cycles = 0
    /\ mp_fatal = FALSE
    /\ mp_res = [p \in PReaders |-> NoPResult]
    /\ mp_over = [p \in PReaders |-> FALSE]
    /\ mg_pc = "new"
    /\ mg_target = NoTarget
    /\ mg_transparent = FALSE
    /\ mg_ctrl = "none"
    /\ mg_reconnect = << >>
    /\ mg_prefTarget = NoTarget
    /\ mg_prefConn = FALSE
    /\ mg_sessions = 0
    /\ mg_msgs = 0
    /\ mg_last = NoTarget
    /\ mg_dialed = NoTarget
    /\ ob_made = FALSE
    /\ ob_maxMessages = DefaultMaxMessages
    /\ ob_maxBytes = DefaultMaxBytes
    /\ ob_dropOld = FALSE
    /\ ob_closed = FALSE
    /\ ob_q = << >>
    /\ ob_qBytes = 0
    /\ ob_ops = 0
    /\ ob_last = NoObCall

\* The migration path of the server: quic-go's receive loop, the callers of
\* Rebind and Close, and the network.
NextServer ==
    \/ \E p \in Readers : ReadSnapshot(p)
    \/ \E p \in Readers : ReadKernel(p)
    \/ \E p \in Readers : ReadCheck(p)
    \/ \E p \in Rebinders : RebindBind(p)
    \/ \E p \in Rebinders : RebindSwap(p)
    \/ \E p \in Rebinders : RebindCloseOld(p)
    \/ \E p \in Closers : Close(p)
    \/ Deliver

\* The socket life cycle of the client's endpoint.
NextClient ==
    \/ \E p \in CRebinders : \E laddr \in LocalArgs : RebindLocalBind(p, laddr)
    \/ \E p \in CRebinders : RebindLocalSwap(p)
    \/ \E p \in CRebinders : RebindLocalCloseOld(p)
    \/ \E p \in CClosers : SClose(p)

Next == NextServer \/ NextClient

Spec == Init /\ [][Next]_vars

\* Every method of the server's endpoint: one goroutine that uses it as a
\* net.PacketConn (ReadFrom, WriteTo, LocalAddr, the deadline setters), one
\* that rebinds and one that closes.
InitCalls == Init /\ side = "server"

NextCalls ==
    \/ \E p \in Callers : ReadSnapshot(p)
    \/ \E p \in Callers : ReadKernel(p)
    \/ \E p \in Callers : ReadCheck(p)
    \/ \E p \in Callers : WriteSnapshot(p)
    \/ \E p \in Callers : WriteKernel(p)
    \/ \E p \in Callers : WriteCheck(p)
    \/ \E p \in Callers : LocalAddr(p)
    \/ \E p \in Callers : \E name \in DeadlineOps : DeadlineSnapshot(p, name)
    \/ \E p \in Callers : \E t \in Times : DeadlineCall(p, t)
    \/ \E p \in {"b1"} : RebindBind(p)
    \/ \E p \in {"b1"} : RebindSwap(p)
    \/ \E p \in {"b1"} : RebindCloseOld(p)
    \/ \E p \in Closers : Close(p)
    \/ Deliver

SpecCalls == InitCalls /\ [][NextCalls]_vars

\* The client's endpoint as dialControl creates it: realPeer = fakePeer =
\* the dial target, no armed peer.
InitPeer == Init /\ side = "client"

\* The send path of the client: the callers of SetPeer, ArmPeer and
\* CutoverToArmedPeer (the control loop, the commit listener, the
\* application), quic-go's sends, and a caller of Close.
NextPeer ==
    \/ \E peer \in PeerArgs : SetPeer(peer)
    \/ \E peer \in PeerArgs : ArmPeer(peer)
    \/ CutoverToArmedPeer
    \/ \E p \in CWriters : CWritePeer(p)
    \/ \E p \in CWriters : CWriteSnapshot(p)
    \/ \E p \in CWriters : CWriteKernel(p)
    \/ \E p \in CWriters : CWriteCheck(p)
    \/ \E p \in CClosers : SClose(p)

SpecPeer == InitPeer /\ [][NextPeer]_vars

\* The receive path of the client: the same callers of the peer slots,
\* quic-go's receive loop, the network, and a caller of Close.
NextRecv ==
    \/ \E peer \in PeerArgs : SetPeer(peer)
    \/ \E peer \in PeerArgs : ArmPeer(peer)
    \/ CutoverToArmedPeer
    \/ \E p \in CReaders : CReadSnapshot(p)
    \/ \E p \in CReaders : CReadKernel(p)
    \/ \E p \in CReaders : CReadFilter(p)
    \/ \E p \in CReaders : CReadCheck(p)
    \/ \E from \in Sources : CDeliver(from)
    \/ \E p \in CClosers : SClose(p)

SpecRecv == InitPeer /\ [][NextRecv]_vars

\* A client session: the control loop, and the application's calls of ArmPeer
\* and CutoverToArmedPeer on the session's endpoint.
NextLoop ==
    \/ \E m \in LoopInputs : LoopNext(m)
    \/ LoopSwitchPeer
    \/ LoopOnce
    \/ LoopAck
    \/ \E peer \in PeerArgs : ArmPeer(peer)
    \/ CutoverToArmedPeer

SpecLoop == InitPeer /\ [][NextLoop]_vars

\* The commit listener, and a caller of ArmPeer.
NextListen ==
    \/ \E p \in Payloads : ListenRecv(p)
    \/ ListenStop
    \/ \E peer \in PeerArgs : ArmPeer(peer)

SpecListen == InitPeer /\ [][NextListen]_vars

\* One connection of Serve and its control client, with the acks the client
\* sends; the signal loop and the clock.
NextCall ==
    \/ \E c \in {"c1"} : ConnStart(c)
    \/ \E c \in {"c1"} : ConnRegister(c)
    \/ \E c \in {"c1"} : ConnClose(c)
    \/ \E c \in {"c1"} : \E m \in AckInputs : RdNext(c, m)
    \/ \E c \in {"c1"} : RdLookup(c)
    \/ \E c \in {"c1"} : RdSignal(c)
    \/ TermSignal
    \/ \E k \in Terms : SendRegister(k)
    \/ \E k \in Terms : SendWrite(k)
    \/ \E k \in Terms : SendSelect(k)
    \/ \E k \in Terms : SendUnregister(k)

\* The same while the clock, whose reading is the id of a migrate, advances.
NextAck ==
    \/ NextCall
    \/ Tick

SpecAck == InitCalls /\ [][NextAck]_vars

\* The steps of the signal loop's call of SendMigrateAndWait.  None of them
\* waits for another goroutine: the select has its timer.
SendStep(k) == SendRegister(k) \/ SendWrite(k) \/ SendSelect(k) \/ SendUnregister(k)

\* The connection and the signal loop with the SIGUSR2 handler's Rebind of the
\* server's endpoint, and with the fairness of the call's steps.
NextAckRebind ==
    \/ NextCall
    \/ \E p \in {"b1"} : RebindBind(p)
    \/ \E p \in {"b1"} : RebindSwap(p)
    \/ \E p \in {"b1"} : RebindCloseOld(p)

SpecAckFair ==
    InitCalls /\ [][NextAckRebind]_vars /\ \A k \in Terms : WF_vars(SendStep(k))

\* Serve with its connections: they come, register and go, their control
\* streams end, and the signal loop sends its migrate messages.  The clients
\* send no acks here.
NextServe ==
    \/ \E c \in Conns : ConnStart(c)
    \/ \E c \in Conns : ConnRegister(c)
    \/ \E c \in Conns : ConnClose(c)
    \/ \E c \in Conns : \E m \in {[type |-> "eof", ackid |-> NoId]} : RdNext(c, m)
    \/ TermSignal
    \/ \E k \in Terms : SendRegister(k)
    \/ \E k \in Terms : SendWrite(k)
    \/ \E k \in Terms : SendSelect(k)
    \/ \E k \in Terms : SendUnregister(k)

SpecServe == InitCalls /\ [][NextServe]_vars

\* A control session, at the client or at the server.
NextCtrl ==
    \/ NextLoop
    \/ NextAck
    \/ \E c \in {"c1"} : \E m \in OtherInputs : RdNext(c, m)

SpecCtrl == Init /\ [][NextCtrl]_vars

\* Goroutines that call the methods of one SwappableUDPConn, any of them any
\* method at any time.
NextLocks == \E p \in LockProcs : \E t \in LockTable : LockStep(p, t)

SpecLocks == InitPeer /\ [][NextLocks]_vars

\* The orchestrator's restore step, the restored server's SIGUSR2 handler and
\* the client's commit listener.
NextOrch ==
    \/ \E addr \in CommitAddrs : OrchFlags(addr)
    \/ \E i \in 1 .. 4 : \E ok \in BOOLEAN : OrchCall(i, ok)
    \/ \E ok \in BOOLEAN : OrchSignal(ok)
    \/ OrchSleep
    \/ \E outcome \in {"sent", "dial error", "write error"} : OrchCommit(outcome)
    \/ OrchWait
    \/ HookRecv
    \/ \E ok \in BOOLEAN : HookListen(ok)
    \/ HookSwap
    \/ HookCloseOld
    \/ \E lost \in BOOLEAN : CommitArrive(lost)
    \/ ClientFirstSend

SpecOrch == InitCalls /\ [][NextOrch]_vars

\* The callers of one Outbox.
NextOutbox ==
    \/ \E mm \in OptMessages, mb \in OptBytes, d \in BOOLEAN : NewOutbox(mm, mb, d)
    \/ \E b \in OutboxMsgs : Enqueue(b)
    \/ \E max \in DrainArgs : Drain(max)
    \/ ObClose

SpecOutbox == InitPeer /\ [][NextOutbox]_vars

\* The reconnect-mode client: Run, the session's control loop and the
\* prefetch goroutine.
NextManager ==
    \/ \E t \in BOOLEAN : MgNew(t)
    \/ \E ok \in BOOLEAN : MgDial(ok)
    \/ MgRunReturns
    \/ \E msg \in MgMsgs : MgCtrlRecv(msg)
    \/ MgCtrlEnd
    \/ MgPrefetchReady
    \/ MgSelect

SpecManager == InitPeer /\ [][NextManager]_vars

\* The earlier wrapper: quic-go's reads, and the signal handlers' calls of
\* PrepareForCheckpoint and Rebind.
NextLegacy ==
    \/ \E v \in Variants : PNew(v)
    \/ \E p \in PReaders : PReadLock(p)
    \/ \E p \in PReaders : PReadCheck(p)
    \/ \E p \in PReaders : PReadWake(p)
    \/ \E p \in PReaders : PReadHave(p)
    \/ \E p \in PReaders : PReadKernel(p)
    \/ \E p \in PReaders : PReadFailed(p)
    \/ PrepareForCheckpoint
    \/ \E ok \in BOOLEAN : PRebind(ok)

SpecLegacy == InitCalls /\ [][NextLegacy]_vars

\* The callers of udpAddrEqual.
NextEqual == \E a \in Addrs, b \in Addrs : AddrCompare(a, b)

SpecEqual == InitPeer /\ [][NextEqual]_vars

\* The two ends of a control stream: one writes a line, the other reads it.
NextCodec ==
    \/ cd_pc = "idle" /\ \E msg \in Messages : CodecWrite(msg)
    \/ \E line \in RawLines : CodecFeed(line)
    \/ CodecNext

SpecCodec == InitPeer /\ [][NextCodec]_vars

\* ------------------------------------------------------------------ claims
\* The endpoint this process has, its conn and its gen.
Conn == IF side = "server" THEN m_conn ELSE s_conn
Gen == IF side = "server" THEN m_gen ELSE s_gen

\* The generation a socket was installed with: InitGen for the constructor's
\* socket, one more for each socket installed after it.
GenOf(s) == InitGen - 1 + (CHOOSE i \in 1 .. Len(installed) : installed[i] = s)

WasInstalled(s) == \E i \in 1 .. Len(installed) : installed[i] = s

OpenSocks == {s \in Socks : sock[s].state = "open"}

\* No Rebind, RebindLocal or Close call is under way.
Quiescent == \A p \in Rebinders \cup Closers \cup CRebinders \cup CClosers : Idle(p)

ReadDone(p) == pc[p] = "done" /\ op[p] = "ReadFrom"

\* C1: a ReadFrom that was blocked on the old socket when Rebind closed it
\* never returns the closing error: it retries, and what it then returns is a
\* datagram read from a socket installed after the one it was blocked on or,
\* only when the endpoint has been closed, the endpoint's "udp conn is nil".
C1_BlockedReadSurvivesRebind ==
    \A p \in Readers : ReadDone(p) =>
        /\ res[p].kind # "ErrClosed"
        /\ retried[p] =>
              /\ res[p].kind \in {"nil", "ErrNil"}
              /\ res[p].kind = "nil" =>
                    /\ WasInstalled(res[p].sock)
                    /\ GenOf(res[p].sock) > GenOf(firstSock[p])
              /\ res[p].kind = "ErrNil" => closedEver /\ m_conn = NIL

\* C1 witness: a ReadFrom that went through the retry has returned a datagram
\* of the new socket, the endpoint being open.
C1_Witness ==
    \E p \in Readers :
        /\ ReadDone(p) /\ retried[p] /\ res[p].kind = "nil"
        /\ ~closedEver /\ res[p].sock = m_conn

\* C2: Rebind and RebindLocal bind the new socket first (it is open and not
\* yet the endpoint's while the call waits for the mutex), install it and
\* increment the generation under the mutex, and only then close the old
\* socket (which is still open, and no longer current, when the call is about
\* to close it).  The endpoint's current socket is never a closed one.
C2_BindSwapThenCloseOld ==
    /\ Conn # NIL => IsOpen(Conn)
    /\ \A p \in Rebinders \cup CRebinders :
          /\ pc[p] = "bound" =>
                IsOpen(ln[p]) /\ ln[p] # Conn /\ ~WasInstalled(ln[p])
          /\ pc[p] = "swapped" =>
                /\ IsOpen(lc[p]) /\ lc[p] # Conn
                /\ WasInstalled(lc[p]) /\ Gen > GenOf(lc[p])
    /\ \A s \in Socks : (WasInstalled(s) /\ sock[s].state = "closed") => s # Conn

\* C2 witness: a rebind has returned nil on a live endpoint: the first socket
\* is closed and the current one is another, open socket.
C2_Witness ==
    /\ \E p \in Rebinders \cup CRebinders : pc[p] = "done" /\ res[p].kind = "nil"
    /\ nRebindOK >= 1 /\ IsOpen(Conn) /\ Conn # 1 /\ sock[1].state = "closed"

\* C3 as stated: a datagram ReadFrom returns was read from the socket whose
\* generation is the current generation at the moment of the return.
C3_ReadFromCurrentGeneration ==
    \A p \in Readers :
        (ReadDone(p) /\ res[p].kind = "nil") => GenOf(res[p].sock) = res[p].rg

\* C3 amended: a datagram ReadFrom returns was read from the socket the call
\* last sampled under the mutex, and the generation sampled with it is that
\* socket's own; that generation is at most the current generation at the
\* moment of the return, and the socket is never older than the one that was
\* current when the call began.
C3_ReadFromSampledPair ==
    \A p \in Readers :
        (ReadDone(p) /\ res[p].kind = "nil") =>
            /\ WasInstalled(res[p].sock)
            /\ GenOf(res[p].sock) = res[p].g
            /\ res[p].g <= res[p].rg
            /\ GenOf(res[p].sock) >= GenOf(firstSock[p])

\* C3 witness: a ReadFrom returned a datagram of the replaced socket, read
\* after the swap and before Rebind closed that socket.
C3_Witness ==
    \E p \in Readers :
        ReadDone(p) /\ res[p].kind = "nil" /\ res[p].g < res[p].rg

\* C4: a Rebind call that returns net.ListenUDP's error leaves the endpoint's
\* socket and generation, and every kernel socket, as they were.
C4_BindFailureChangesNothing ==
    [][\A p \in Rebinders :
          (res[p] # ErrBind /\ res'[p] = ErrBind /\ op'[p] = "Rebind")
              => (m_conn' = m_conn /\ m_gen' = m_gen /\ sock' = sock)]_vars

\* C4 witness: Rebind has returned the bind error after an earlier rebind;
\* the endpoint still has the socket and generation of that earlier rebind.
C4_Witness ==
    \E p \in Rebinders :
        /\ pc[p] = "done" /\ res[p] = ErrBind
        /\ nRebindOK = 1 /\ Quiescent /\ ~closedEver
        /\ IsOpen(m_conn) /\ m_gen = InitGen + 1

\* C5: on a server endpoint that has not been closed the generation is the
\* initial one plus the number of Rebind calls that have returned nil (plus
\* those that have swapped and are about to return nil), and the current
\* socket is open and bound to the configured local address.
C5_GenerationCountsRebinds ==
    (side = "server" /\ ~closedEver) =>
        /\ m_gen = InitGen + nRebindOK
                     + Cardinality({p \in Rebinders : pc[p] = "swapped"})
        /\ IsOpen(m_conn) /\ sock[m_conn].laddr = ListenAddr

\* C5 witness: two Rebind calls have returned nil.
C5_Witness ==
    /\ side = "server" /\ ~closedEver /\ Quiescent
    /\ nRebindOK = 2 /\ m_gen = InitGen + 2

\* C6: when no Rebind or Close call is under way, the only open socket is
\* the endpoint's current one (none when it is closed): every replaced
\* socket and every socket a failed Rebind created is closed.
C6_NoSocketLeak ==
    Quiescent => OpenSocks = (IF Conn = NIL THEN {} ELSE {Conn})

\* C6 witness: after concurrent Rebind calls and a Close all calls have
\* returned, one Rebind having lost against Close.
C6_Witness ==
    /\ side = "server" /\ Quiescent /\ closedEver /\ nRebindOK >= 1
    /\ \E p \in Rebinders : res[p].kind = "ErrNil" /\ ~postClose[p]

\* C7: the server endpoint is either closed (conn nil) or its conn is an open
\* socket bound to the listen address whose generation is gen; and conn and
\* gen change only together.
C7_SocketAndGenerationPaired ==
    /\ [](side = "server" =>
            \/ m_conn = NIL /\ closedEver
            \/ /\ IsOpen(m_conn) /\ sock[m_conn].laddr = ListenAddr
               /\ WasInstalled(m_conn) /\ GenOf(m_conn) = m_gen)
    /\ [][(m_conn' # m_conn) <=> (m_gen' # m_gen)]_vars

\* C7 witness: after a rebind the endpoint holds the second socket with the
\* second generation.
C7_Witness ==
    /\ side = "server" /\ IsOpen(m_conn) /\ m_conn # 1 /\ m_gen = InitGen + 1

\* C8: once Close has taken effect the endpoint stays closed, and a Rebind
\* that finds it closed has closed the socket it created and returned the
\* error.
C8_CloseWinsOverRebind ==
    /\ closedEver => Conn = NIL
    /\ \A p \in Rebinders :
          (pc[p] = "done" /\ op[p] = "Rebind" /\ res[p].kind = "ErrNil") =>
              /\ closedEver /\ m_conn = NIL
              /\ res[p].sock # NIL /\ sock[res[p].sock].state = "closed"
    /\ \A p \in Rebinders :
          (pc[p] = "done" /\ op[p] = "Rebind" /\ postClose[p]) =>
              res[p].kind \in {"ErrNil", "ErrBind"}

\* C8 witness: a Rebind that began before Close, and reached its critical
\* section after it, has returned the error.
C8_Witness ==
    \E p \in Rebinders :
        /\ pc[p] = "done" /\ op[p] = "Rebind" /\ res[p].kind = "ErrNil"
        /\ ~postClose[p] /\ sock[res[p].sock].state = "closed"

\* What a method answers on a closed endpoint when it answers "closed":
\* the "udp conn is nil" error; for Rebind also the bind error that precedes
\* its check; for LocalAddr, which has no error result, the empty address.
ClosedAnswers(name) ==
    IF name = "LocalAddr" THEN {"emptyAddr"}
    ELSE IF name = "Rebind" THEN {"ErrNil", "ErrBind"}
    ELSE {"ErrNil"}

\* C9 as stated: every call that begins after Close has returned (ReadFrom,
\* WriteTo, Rebind, LocalAddr, the three deadline setters) ends with the
\* endpoint's closed answer.
C9_EveryCallAfterCloseFails ==
    \A p \in Callers \cup Rebinders :
        (pc[p] = "done" /\ postClose[p]
            /\ op[p] \in {"ReadFrom", "WriteTo", "Rebind", "LocalAddr"} \cup DeadlineOps)
            => res[p].kind \in ClosedAnswers(op[p])

\* C10: no socket is closed twice, every Close returns what the first Close
\* returned, and a closed endpoint stays closed.
C10_CloseIdempotent ==
    /\ \A s \in Socks : sock[s].closes <= 1
    /\ \A p \in Closers \cup CClosers :
          (pc[p] = "done" /\ op[p] = "Close") =>
              res[p].kind = firstClose /\ res[p].kind # "panic"
    /\ closedEver => Conn = NIL

\* C10 witness: a Close call made after the endpoint was closed has returned.
C10_Witness ==
    \E p \in Closers \cup CClosers :
        /\ pc[p] = "done" /\ op[p] = "Close" /\ postClose[p]
        /\ res[p].kind = "nil" /\ Conn = NIL

\* -------------------------------------------- claims: the peer-swapping end
CReadDone(p) == pc[p] = "done" /\ op[p] = "ReadFrom"
CWriteDone(p) == pc[p] = "done" /\ op[p] = "WriteTo"

\* C11 as stated: a datagram ReadFrom returns has a source equal (normalized)
\* to the real peer that is current when the call returns.
C11_ReadFromOnlyFromRealPeer ==
    \A p \in CReaders :
        (CReadDone(p) /\ res[p].kind = "nil") => udpAddrEqual(io[p].peer, io[p].from)

\* C11 amended: while a real peer is set, a datagram ReadFrom returns has a
\* source equal (normalized) to the real peer the call read after receiving
\* it, a datagram of another source being dropped and the call going on; with
\* no real peer set (nil) nothing is filtered.
C11_ReadFromFiltersWhilePeerSet ==
    \A p \in CReaders :
        (CReadDone(p) /\ res[p].kind = "nil" /\ io[p].peer # NoPeer)
            => udpAddrEqual(io[p].peer, io[p].from)

\* C11 witness: the call has dropped a datagram of another source and is back
\* at the top of its loop, the endpoint being open and its real peer set.
C11_Witness ==
    \E p \in CReaders :
        /\ pc[p] = "rretry" /\ ~closedEver /\ realPeer # NoPeer
        /\ nDelivered >= 1 /\ \A s \in Socks : srcq[s] = << >>

\* C12: every datagram ReadFrom returns is reported with the logical peer as
\* its source, and the logical peer is the dial target from the creation of
\* the endpoint on.
C12_ReportedSourceIsLogicalPeer ==
    /\ side = "client" => fakePeer = Target
    /\ \A p \in CReaders :
          (CReadDone(p) /\ res[p].kind = "nil") => io[p].addr = Target

\* C12 witness: after the real peer was switched, a datagram whose kernel
\* source is the new peer has been returned.
C12_Witness ==
    \E p \in CReaders :
        /\ CReadDone(p) /\ res[p].kind = "nil"
        /\ io[p].from = NewTarget /\ io[p].peer = NewTarget /\ io[p].addr = Target

\* This step is a call of the peer-slot operation name.
PeerStep(name) == lastPeerOp' # lastPeerOp /\ lastPeerOp'.name = name

\* C13 as stated: a successful WriteTo hands its datagram to the kernel
\* addressed to the real peer that is current at that moment.
C13_SendToCurrentRealPeer ==
    [][\A p \in CWriters :
          (pc[p] = "writing" /\ pc'[p] = "done" /\ res'[p].kind = "nil")
              => io'[p].to = realPeer]_vars

\* C13 amended: a successful WriteTo sends to the real peer the call read when
\* it began, whatever its destination argument and whatever happened to the
\* real peer since; a call that finds the real peer unset fails with the
\* no-peer error and hands nothing to the kernel, and no other call does.
C13_SendToPeerReadAtCallStart ==
    \A p \in CWriters : CWriteDone(p) =>
        /\ res[p].kind = "nil" => (io[p].peer # NoPeer /\ io[p].to = io[p].peer)
        /\ res[p].kind = "ErrNoPeer" <=> io[p].peer = NoPeer
        /\ res[p].kind # "nil" => io[p].to = NoPeer

\* C13 witness: a datagram went to the peer read at the start of the call
\* although the real peer is another one by now.
C13_Witness ==
    \E p \in CWriters :
        /\ CWriteDone(p) /\ res[p].kind = "nil"
        /\ io[p].to = NewTarget /\ realPeer # NewTarget

C15_CommitEmptiesArmedSlot ==
    lastPeerOp.name = "CutoverToArmedPeer" => armedPeer = NoPeer

\* C15 amended: a commit never changes the armed slot; when it returns true
\* the real peer is the armed address, and a commit that follows SetPeer(q),
\* q not equal to the address still in the armed slot, promotes that address
\* again.
C15_CommitKeepsArmedSlot ==
    [][PeerStep("CutoverToArmedPeer") =>
          /\ armedPeer' = armedPeer
          /\ lastPeerOp'.ret => realPeer' = armedPeer
          /\ (lastPeerOp.name = "SetPeer" /\ armedPeer # NoPeer
                 /\ ~udpAddrEqual(lastPeerOp.arg, armedPeer))
                => (lastPeerOp'.ret /\ realPeer' = armedPeer)]_vars

\* C15 witness: a commit has returned true and the armed slot still holds the
\* address it promoted (armed after the real peer had left the dial target).
C15_Witness ==
    /\ lastPeerOp.name = "CutoverToArmedPeer" /\ lastPeerOp.ret
    /\ armedPeer = TargetMapped /\ realPeer = TargetMapped

\* C16 as stated: once a commit has returned true, every commit that follows
\* with no SetPeer or ArmPeer in between returns false and leaves the real
\* peer as it is.
C16_RepeatedCommitReturnsFalse ==
    [][(PeerStep("CutoverToArmedPeer") /\ committed # NoPeer)
          => (~lastPeerOp'.ret /\ realPeer' = realPeer)]_vars

\* C17: a WriteTo that begins after a commit has promoted the armed address p,
\* no SetPeer or ArmPeer having run since that commit, sends to p.
C17_SendAfterCommitGoesToArmed ==
    \A p \in CWriters :
        (CWriteDone(p) /\ res[p].kind = "nil" /\ io[p].commit # NoPeer)
            => io[p].to = io[p].commit

\* C17 witness: such a WriteTo has sent its datagram to the promoted address.
C17_Witness ==
    \E p \in CWriters :
        /\ CWriteDone(p) /\ res[p].kind = "nil"
        /\ io[p].commit = NewTarget /\ io[p].to = NewTarget

\* C18: ArmPeer(p) stores p in the armed slot and changes nothing else: not
\* the real peer, the logical peer, the socket or the generation; a second
\* ArmPeer(p) leaves the armed slot as the first left it.
C18_ArmPeerOnlySetsArmedSlot ==
    [][PeerStep("ArmPeer") =>
          /\ armedPeer' = lastPeerOp'.arg
          /\ realPeer' = realPeer /\ fakePeer' = fakePeer
          /\ s_conn' = s_conn /\ s_gen' = s_gen /\ sock' = sock
          /\ (lastPeerOp.name = "ArmPeer" /\ lastPeerOp.arg = lastPeerOp'.arg)
                => armedPeer' = armedPeer]_vars

\* C18 witness: with an address armed and no commit, a datagram has gone to
\* the old real peer.
C18_Witness ==
    /\ lastPeerOp.name = "ArmPeer" /\ armedPeer = NewTarget /\ realPeer = Target
    /\ \E p \in CWriters :
          CWriteDone(p) /\ res[p].kind = "nil" /\ io[p].to = Target

\* C19: SetPeer(q) makes q the real peer and changes nothing else: not the
\* armed slot, the logical peer, the socket or the generation; a WriteTo that
\* begins while that SetPeer is the last operation on the slots sends to q.
C19_SetPeerSwitchesAtOnce ==
    /\ [](\A p \in CWriters :
            (CWriteDone(p) /\ res[p].kind = "nil" /\ io[p].set # NoPeer)
                => io[p].to = io[p].set)
    /\ [][PeerStep("SetPeer") =>
            /\ realPeer' = lastPeerOp'.arg
            /\ armedPeer' = armedPeer /\ fakePeer' = fakePeer
            /\ s_conn' = s_conn /\ s_gen' = s_gen /\ sock' = sock]_vars

\* C19 witness: a WriteTo begun right after SetPeer(q) has sent to q, the
\* armed slot holding another address and no commit having run.
C19_Witness ==
    \E p \in CWriters :
        /\ CWriteDone(p) /\ res[p].kind = "nil"
        /\ io[p].set = NewTarget /\ io[p].to = NewTarget
        /\ armedPeer = AnyHost /\ committed = NoPeer

\* C20 as stated: the real peer of a live endpoint is never nil.
C20_RealPeerNeverNil ==
    (side = "client" /\ s_conn # NIL) => realPeer # NoPeer

\* C20 amended: the real peer is set when the endpoint is created, and the
\* only step that makes it nil is SetPeer(nil): ArmPeer with any argument and
\* CutoverToArmedPeer never do.
C20_RealPeerNilOnlyBySetPeerNil ==
    /\ realPeer # NoPeer
    /\ [][(realPeer # NoPeer /\ realPeer' = NoPeer)
             => (PeerStep("SetPeer") /\ lastPeerOp'.arg = NoPeer)]_vars

\* C20 witness: ArmPeer(nil) and a commit have run on a live endpoint whose
\* real peer had been switched; the real peer is still set.
C20_Witness ==
    /\ lastPeerOp.name = "CutoverToArmedPeer" /\ ~lastPeerOp.ret
    /\ armedPeer = NoPeer /\ realPeer = NewTarget /\ s_conn # NIL

\* ------------------------------------------- claims: the control plane
\* The control loop has finished with a message: it is back at lr.Next() or
\* has returned.
LoopAtTop == cl_pc \in {"next", "ended"}

\* C21 as stated: when the control loop handles a migrate message it stores
\* the announced address in the armed slot and leaves the real peer as it is;
\* the real peer changes only by a commit.
C21_MigrateOnlyArms ==
    /\ [][(cl_pc = "switch" /\ cl_pc' = "once") =>
            LET na == ResolveUDPAddr(cl_msg.host, cl_msg.port) IN
            /\ realPeer' = realPeer
            /\ na # NoPeer => armedPeer' = na]_vars
    /\ [][realPeer' # realPeer => PeerStep("CutoverToArmedPeer")]_vars

\* The calls the loop made for the message it handled last.
LoopCalls == {cl_last.calls[i] : i \in 1 .. Len(cl_last.calls)}

\* C22 as stated: when the loop is through with a commit message it has
\* called CutoverToArmedPeer on the endpoint (which promotes an armed peer
\* that differs from the real peer).
C22_CommitMessageCutsOver ==
    (LoopAtTop /\ cl_last.msg.type = "commit") => "CutoverToArmedPeer" \in LoopCalls

\* This step of the loop calls close(migrateSeen).
ClosesLatch == cl_last'.calls = Append(cl_last.calls, "close")

\* C23: in a session the MigrateSeen channel is closed once, by the loop's
\* handling of the first migrate message: no later migrate message closes it
\* again (which would panic), and once closed it stays closed.
C23_LatchFiresOnce ==
    /\ [](LoopAtTop => (migrateSeen = "closed" <=> Len(cl_seen) >= 1))
    /\ [](~crashed)
    /\ [][migrateSeen = "closed" => migrateSeen' = "closed"]_vars
    /\ [][(cl_pc = "once" /\ cl_pc' = "ack") => (ClosesLatch <=> Len(cl_seen) = 1)]_vars

\* C23 witness: the loop has handled two migrate messages; the channel is
\* closed and nothing has panicked.
C23_Witness ==
    /\ Len(cl_seen) = 2 /\ cl_pc = "next" /\ Len(acks) = 2
    /\ migrateSeen = "closed" /\ ~crashed

\* C24 as stated: the acks the loop has written are the ids of the migrate
\* messages it has received, in the order of their receipt, one ack each; for
\* each migrate message (whose address resolves) the loop has called ArmPeer,
\* and the latch has fired.
C24_AckAndArmPerMigrate ==
    /\ Len(acks) <= Len(cl_seen)
    /\ \A i \in 1 .. Len(acks) : acks[i] = cl_seen[i]
    /\ LoopAtTop => acks = cl_seen
    /\ (LoopAtTop /\ Len(cl_seen) >= 1) => migrateSeen = "closed"
    /\ (LoopAtTop /\ cl_last.msg.type = "migrate"
           /\ ResolveUDPAddr(cl_last.msg.host, cl_last.msg.port) # NoPeer)
          => "ArmPeer" \in LoopCalls

\* The k-th iteration of the signal loop called SendMigrateAndWait, and the
\* call has returned.
CallDone(k) == t_pc[k] = "done" /\ t_c[k] # NoConn

\* The waiter (channel) k is in some waiter map.
InMap(k) == \E c \in Conns : \E i \in Ids : ackMap[c][i] = k

\* C25: SendMigrateAndWait(id) has its waiter in the map under id when it
\* writes the migrate message and until its select has taken a case; the
\* waiter leaves the map once, by the call's own delete, whichever case the
\* select took (ack, timeout, done), and is in no map after the call has
\* returned.
C25_WaiterInsertedBeforeWriteRemovedOnce ==
    /\ [](\A k \in Terms :
            /\ t_pc[k] \in {"registered", "written", "selected"}
                  => ackMap[t_c[k]][t_id[k]] = k
            /\ t_pc[k] \in {"idle", "call", "done"} => ~InMap(k))
    /\ [][\A k \in Terms :
            /\ (t_pc[k] = "registered" /\ t_pc'[k] = "written")
                  => (ackMap[t_c[k]][t_id[k]] = k /\ Len(sent'[t_c[k]]) = Len(sent[t_c[k]]) + 1)
            /\ (InMap(k) /\ ~InMap(k)')
                  => (t_pc[k] = "selected" /\ t_pc'[k] = "done")]_vars

\* C25 witness: one call has returned after an ack, the next after the end of
\* the stream, and the map is empty.
C25_Witness ==
    /\ CallDone(1) /\ t_why[1] = "ch" /\ t_acked[1]
    /\ CallDone(2) /\ t_why[2] = "done" /\ ~t_acked[2]
    /\ \A k \in Terms : ~InMap(k)

\* C26 as stated: a call returns acked = true exactly when the reader got an
\* ack of the call's id while the call's waiter was registered; an ack that
\* matches no registered waiter changes nothing.
C26_AckedIffAckReceived ==
    \A k \in Terms : CallDone(k) => (t_acked[k] <=> t_ack[k])

\* The reader's lookup for connection c finds no waiter / finds one.
LookupMiss(c) == rd_pc[c] = "lookup" /\ rd_pc'[c] = "next"
LookupHit(c) == rd_pc[c] = "lookup" /\ rd_pc'[c] = "signal"

\* C26 amended: a call returns acked = true only if the reader, for an ack
\* with the call's id read from the call's stream, found the call's waiter in
\* the map; such an ack does not force true: when the timer fires or the
\* stream ends before the select takes the channel's value, the call returns
\* false (by the done case only when done is closed).  An ack whose ack_id has
\* no waiter in the map changes neither map, channels nor any call.
C26_AckedOnlyIfAckFoundWaiter ==
    /\ [](\A k \in Terms :
            /\ (t_acked[k] \/ chanBuf[k] = 1) => t_ack[k]
            /\ t_why[k] = "done" => done[t_c[k]])
    /\ [][\A c \in Conns :
            /\ LookupMiss(c) =>
                  UNCHANGED << ackMap, chanBuf, sent, connVars, termVars, done >>
            /\ LookupHit(c) =>
                  LET k == rd_ch'[c] IN
                  /\ t_c[k] = c /\ t_id[k] = rd_id[c]
                  /\ t_pc[k] \in {"registered", "written", "selected"}]_vars

\* C26 witness: one call has returned true; another has returned false by
\* its timer although the reader had found its waiter for an ack.
C26_Witness ==
    /\ CallDone(1) /\ t_acked[1]
    /\ CallDone(2) /\ ~t_acked[2] /\ t_ack[2] /\ t_why[2] = "timeout"

\* C27: every call of SendMigrateAndWait returns; a call for which the reader
\* found no ack returns acked = false, by its timer or, with done closed, by
\* the end of the stream.  No step of the call touches the server's endpoint
\* (its socket, its generation, the kernel's sockets), and a Rebind whose
\* ListenUDP has succeeded installs its socket, adds one to the generation
\* and returns nil.
C27_WaitReturnsAndLeavesEndpoint ==
    /\ \A k \in Terms : (t_pc[k] = "call") ~> (t_pc[k] = "done")
    /\ [](\A k \in Terms :
            (CallDone(k) /\ ~t_ack[k])
                => (~t_acked[k] /\ t_why[k] \in {"timeout", "done"}
                       /\ (t_why[k] = "done" => done[t_c[k]])))
    /\ [][t_pc' # t_pc => UNCHANGED << m_conn, m_gen, sock >>]_vars
    /\ [][\A p \in {"b1"} :
            (pc[p] = "bound" /\ pc'[p] # "bound")
                => (m_conn' = ln[p] /\ m_gen' = m_gen + 1)]_vars
    /\ [](\A p \in {"b1"} :
            (pc[p] = "done" /\ res[p].kind # "ErrBind") => res[p].kind = "nil")

\* C27 witness: a call has returned false by its timer, no ack having come,
\* and a Rebind has returned nil with the generation one higher.
C27_Witness ==
    /\ CallDone(1) /\ ~t_acked[1] /\ ~t_ack[1] /\ t_why[1] = "timeout"
    /\ pc["b1"] = "done" /\ res["b1"].kind = "nil"
    /\ m_gen = InitGen + 1 /\ m_conn = 2

\* The calls of SendMigrateAndWait on connection c with id i that have
\* inserted their waiter and not yet deleted it.
Outstanding(c, i) ==
    {k \in Terms : t_c[k] = c /\ t_id[k] = i
                     /\ t_pc[k] \in {"registered", "written", "selected"}}

\* C28: on a connection at most one call is outstanding per id, and while a
\* call is outstanding the entry of its id holds its waiter: the only step
\* that takes it out is the call's own delete.
C28_OneOutstandingPerId ==
    /\ [](\A c \in Conns : \A i \in Ids : Cardinality(Outstanding(c, i)) <= 1)
    /\ [][\A c \in Conns : \A i \in Ids : \A k \in Outstanding(c, i) :
            (ackMap[c][i] = k /\ ackMap'[c][i] # k)
                => (t_pc[k] = "selected" /\ t_pc'[k] = "done")]_vars

\* C28 witness: a call waits with the id an earlier call on the same
\* connection had, and the entry of that id holds its waiter.
C28_Witness ==
    /\ CallDone(1) /\ t_pc[2] = "written"
    /\ t_c[2] = t_c[1] /\ t_id[2] = t_id[1]
    /\ ackMap[t_c[2]][t_id[2]] = 2

\* The iterations of the signal loop that have ended and had found c
\* connected (registered with Serve) when they took their signal.
SignalsFor(c) == {k \in Terms : t_pc[k] = "done" /\ c \in t_conns[k]}

\* C29 as stated: for every SIGTERM the loop has handled, each connection
\* that was connected at that moment has been written a migrate message.
C29_MigrateToEveryConnection ==
    \A c \in Conns : Len(sent[c]) >= Cardinality(SignalsFor(c))

\* The listener's step for a datagram (one that differs from the datagram
\* before it, or was handled otherwise).
Handles == ls_last' # ls_last

\* C30 as stated: for the datagram handled last, commit() was called once if
\* the trimmed payload is the literal commit or a one-line message with
\* type=commit, and not at all for any other payload; the listener has sent
\* nothing and goes on listening.
C30_CommitOnLiteralOrMessage ==
    /\ ls_sent = 0
    /\ ls_last.handled =>
          LET b == TrimSpace(ls_last.payload) IN
          ls_last.calls = IF b \in {<< "commit" >>, << CommitObject >>} THEN 1 ELSE 0

\* C30 amended: commit() is called once for a datagram whose trimmed payload
\* is the word commit in any letter case (COMMIT as well) or a JSON message
\* whose type is exactly commit, and not at all for any other payload (a
\* message with type COMMIT, a message of another type, several words or
\* messages, an empty payload); the call is CutoverToArmedPeer on the
\* endpoint; in both cases the listener sends nothing and goes on listening.
C30_CommitOnWordAnyCaseOrMessage ==
    /\ [](ls_sent = 0)
    /\ [](ls_last.handled =>
            LET b == TrimSpace(ls_last.payload) IN
            ls_last.calls =
                IF b \in {<< "commit" >>, << "COMMIT" >>, << CommitObject >>} THEN 1 ELSE 0)
    /\ [][Handles =>
            /\ ls_state' = "listening"
            /\ ls_last'.calls = 1 <=> PeerStep("CutoverToArmedPeer")
            /\ ls_last'.calls = 0 => UNCHANGED slotVars]_vars

\* C30 witness: the datagram COMMIT with a trailing line feed has made the
\* listener promote the armed peer, and the listener is listening.
C30_Witness ==
    /\ ls_last = Dgram(<< "COMMIT", "\n" >>, 1)
    /\ lastPeerOp.name = "CutoverToArmedPeer" /\ lastPeerOp.ret
    /\ realPeer = NewTarget /\ ls_state = "listening"


\* ------------------------------------------------- claims: codec and loops
\* The line WriteLine wrote is one line: one newline, at its end.
OneLine(stream) ==
    /\ stream # << >> /\ stream[Len(stream)] = Newline
    /\ Cardinality({i \in 1 .. Len(stream) : stream[i] = Newline}) = 1

\* C31 as stated: WriteLine writes exactly one newline-terminated line, and
\* lr.Next() on that line returns a message equal to the written one in every
\* field, whatever the values of the fields.
C31_RoundTripAnyMessage ==
    /\ cd_pc = "written" => OneLine(cd_stream)
    /\ cd_pc = "read" => cd_res = NextResult(cd_msg, TRUE, "nil")

\* A text with every byte that is no valid UTF-8 replaced by U+FFFD.
Coerced(s) == [i \in 1 .. Len(s) |-> IF s[i] = BadByte THEN Replacement ELSE s[i]]
CoercedMessage(m) ==
    Message(Coerced(m.Type), Coerced(m.ID), Coerced(m.ClientID),
            Coerced(m.NewAddr), m.NewPort, Coerced(m.AckID))
ValidUTF8(m) == CoercedMessage(m) = m

\* C31 amended: WriteLine writes exactly one newline-terminated line; when
\* the line is no longer than the reader's buffer of 1 MiB, lr.Next() returns
\* ok and no error, and the message it returns is the written one with every
\* byte of its strings that is no valid UTF-8 replaced by U+FFFD: equal to
\* the written message in every field when its strings are valid UTF-8.
C31_RoundTripValidUTF8 ==
    /\ cd_pc = "written" => OneLine(cd_stream)
    /\ (cd_pc = "read" /\ ByteLen(Marshal(cd_msg)) + 1 <= MaxScanTokenSize)
          => /\ cd_res = NextResult(CoercedMessage(cd_msg), TRUE, "nil")
             /\ ValidUTF8(cd_msg) => cd_res.msg = cd_msg

\* C31 witness: a migrate message whose id holds a quote and a newline, with
\* an address, a port and an ack_id, has come back equal.
C31_Witness ==
    /\ cd_pc = "read"
    /\ cd_msg = Message(<< "migrate" >>, << Quote, Newline >>, << "a" >>,
                        << "a" >>, 5243, << Quote, Newline >>)
    /\ cd_res = NextResult(cd_msg, TRUE, "nil")
    /\ cd_stream = << >>

\* C32 as stated: a line that does not decode is skipped and the session
\* stays open: neither the client's control loop nor the server's reader of
\* acks ever returns because of such a line, so that the messages that
\* follow it are still handled.
C32_BadLineIsSkipped ==
    /\ cl_pc = "ended" => cl_end = "eof"
    /\ \A c \in Conns : rd_pc[c] = "ended" => rd_end[c] = "eof"

\* C33: a message of a type the receiving side does not handle changes
\* nothing and gets no reply, and the reader goes on with the next message:
\* the client's loop, for a message that is no migrate, makes no call and
\* stays at the top of its loop with the endpoint, the latch and the acks as
\* they were; the server's reader, for a message that is no ack, stays at
\* lr.Next() with the waiters, their channels and done as they were.
C33_OtherTypesIgnored ==
    /\ [][(cl_last' # cl_last /\ cl_last'.msg.type # "migrate")
            => /\ cl_last'.calls = << >>
               /\ cl_pc = "next" /\ cl_pc' = "next"
               /\ UNCHANGED << cl_msg, onceDone, migrateSeen, acks, cl_seen,
                               cl_end, peerVars, clientVars, kernelVars,
                               crashed >>]_vars
    /\ [][\A c \in Conns :
            rd_skip'[c] # rd_skip[c]
               => /\ rd_pc[c] = "next" /\ rd_pc'[c] = "next"
                  /\ UNCHANGED << connVars, ackMap, chanBuf, done, rd_id,
                                  rd_ch, sent, termVars, rd_end,
                                  serverVars, kernelVars, crashed >>]_vars

\* C33 witness: the client's loop has skipped a hello after it acked a
\* migrate.
C33_Witness ==
    /\ side = "client"
    /\ cl_last = Handled(Msg("hello", "", "", 0), << >>)
    /\ Len(acks) = 1 /\ cl_pc = "next" /\ migrateSeen = "closed"

\* The host an address names: none for the nil pointer, a nil IP and a slice
\* that is neither 4 nor 16 bytes long.
HostOf(a) ==
    IF a.isNil \/ a.ip.len \notin {4, 16} THEN "none" ELSE a.ip.host

\* C34: udpAddrEqual(a, b) is true exactly when neither pointer is nil, the
\* ports are equal and the IPs name the same host, in the 4-byte or in the
\* 16-byte form; it gives the same answer for (b, a).
C34_EqualIffSameHostAndPort ==
    /\ ae_eq <=> (/\ ~ae_a.isNil /\ ~ae_b.isNil
                  /\ ae_a.port = ae_b.port
                  /\ HostOf(ae_a) # "none" /\ HostOf(ae_a) = HostOf(ae_b))
    /\ ae_eq = ae_rev

\* C34 witness: an IPv4 address and its IPv4-mapped form with the same port
\* have compared equal.
C34_Witness ==
    /\ ae_a = Target /\ ae_b = TargetMapped /\ ae_eq /\ ae_rev

\* ------------------------------------------------- claims: the locks
HoldsMu(p) == lk_mu = p
HoldsPeer(p) == lk_w = p \/ p \in lk_r
AtLock(p) ==
    \E t \in LockTable :
        t.from = lk_pc[p] /\ t.act \in {"mu.Lock", "peerMu.Lock", "peerMu.RLock"}

\* C35: no goroutine holds s.mu and s.peerMu at the same time; a goroutine
\* that is in no method holds no lock, and no Unlock is of a lock the
\* goroutine does not hold; and whenever a goroutine is inside a method, some
\* goroutine inside a method can take its next step: the goroutines never
\* all wait for each other's locks.
C35_LocksNeverNested ==
    /\ \A p \in LockProcs : ~(HoldsMu(p) /\ HoldsPeer(p))
    /\ \A p \in LockProcs : lk_pc[p] = "idle" => ~HoldsMu(p) /\ ~HoldsPeer(p)
    /\ ~lk_fatal
    /\ \A p \in LockProcs : (HoldsMu(p) \/ HoldsPeer(p)) => ~AtLock(p)
    /\ (\E p \in LockProcs : lk_pc[p] # "idle")
          => \E p \in LockProcs : \E t \in LockTable :
                lk_pc[p] # "idle" /\ t.from = lk_pc[p] /\ CanTake(p, t.act)

\* C35 witness: one goroutine holds s.mu in Close, another holds s.peerMu in
\* CutoverToArmedPeer, and the third waits in ReadFrom for s.mu.
C35_Witness ==
    /\ lk_pc["g1"] = "Close:held" /\ lk_mu = "g1"
    /\ lk_pc["g2"] = "Cutover:held" /\ lk_w = "g2"
    /\ lk_pc["g3"] = "ReadFrom:top"

\* ------------------------------------------------- claims: the orchestrator
\* C36 as stated: the commit is sent only after the restored process has
\* completed its rebind, so that it never is on its way to, or at, the client
\* while the new server socket is not bound; and a failure to send the commit
\* does not abort the migration.
C36_CommitOnlyAfterRebind ==
    /\ cm # "none" => hk_bound
    /\ or_warn => or_pc \in {"wait", "finished"}

\* ------------------------------------------------- claims: Serve's slot
\* C37: the teardown of a connection clears Serve's cur only if cur still is
\* that connection's control client, and leaves it as it is otherwise; the
\* signal loop calls SendMigrateAndWait on the client it reads from cur, and
\* that call writes its migrate message to that client's stream: when an
\* older connection ends after a newer one registered, a SIGTERM that follows
\* still sends its migrate to the newer one.
C37_TeardownClearsOwnRegistration ==
    /\ [][\A c \in Conns :
            (conn[c] = "registered" /\ conn'[c] = "closed")
               => cur' = (IF cur = c THEN NoConn ELSE cur)]_vars
    /\ [][\A k \in Terms :
            (t_pc[k] = "idle" /\ t_pc'[k] # "idle")
               => /\ t_c'[k] = cur
                  /\ cur # NoConn => t_pc'[k] = "call"]_vars
    /\ [](\A k \in Terms :
            (CallDone(k) /\ t_c[k] # NoConn)
               => \E i \in 1 .. Len(sent[t_c[k]]) : sent[t_c[k]][i] = t_id[k])

\* C37 witness: c1 registered, then c2; c1 ended; the SIGTERM that came then
\* found only c2 connected and its migrate went to c2.
C37_Witness ==
    /\ conn["c1"] = "closed" /\ conn["c2"] = "registered" /\ cur = "c2"
    /\ t_conns[1] = {"c2"} /\ t_c[1] = "c2" /\ CallDone(1)
    /\ sent["c2"] = << t_id[1] >> /\ sent["c1"] = << >>


\* C38: in the earlier MigratablePacketConn, no ReadFrom returns an error to
\* its caller between PrepareForCheckpoint and the Rebind that follows it: a
\* ReadFrom that is in progress or begins in that window returns only after
\* the Rebind, with data read from the new socket (and the process is not
\* ended by the runtime meanwhile).
C38_ReadFromBlocksUntilRebind ==
    /\ ~mp_fatal
    /\ \A p \in PReaders :
          mp_res[p].kind # "none" /\ mp_res[p].overlap
             => /\ ~mp_res[p].inWindow
                /\ mp_res[p].kind = "data"
                /\ mp_res[p].sock > 1


\* C39 (first part): Manager.Target changes only after the session's run
\* callback has returned and its control loop has finished.
C39_TargetChangesOnlyAfterSession ==
    [][mg_pc # "new" /\ mg_target' # mg_target
          => mg_pc = "closing" /\ mg_ctrl = "done"]_vars

\* C39 (last part): in Transparent mode the target never changes.
C39_TransparentKeepsTarget ==
    mg_pc # "new" /\ mg_transparent => mg_target = DefaultTarget

\* C39: Manager.Target changes only after the run callback has returned and
\* the control loop has finished; the next dial then uses the address of the
\* last migrate read in that session, the address that was prefetched; in
\* Transparent mode the target never changes.
C39_NextDialUsesLastMigrate ==
    /\ mg_pc # "new" /\ mg_transparent => mg_target = DefaultTarget
    /\ mg_pc = "dial" /\ ~mg_transparent /\ mg_last # NoTarget
          => /\ mg_target = mg_last
             /\ mg_prefTarget \in {mg_target, NoTarget}


\* An Enqueue that would exceed a bound: one more message than maxMessages,
\* or more bytes than maxBytes.
WouldExceed(c) ==
    \/ Len(c.q) + 1 > ob_maxMessages
    \/ c.bytes + Len(c.arg) > ob_maxBytes

OutboxWithinBounds ==
    /\ Len(ob_q) <= ob_maxMessages
    /\ SumLen(ob_q) <= ob_maxBytes
    /\ ob_qBytes = SumLen(ob_q)

\* C40 as stated: the queue holds at most MaxMessages messages and MaxBytes
\* bytes and the tracked byte count is the sum of the queued lengths; with
\* DropOldest=false every Enqueue that would exceed a bound returns
\* ErrOutboxFull and leaves the queue unchanged.
C40_FullReturnsErrOutboxFull ==
    /\ OutboxWithinBounds
    /\ ob_last.op = "Enqueue" /\ ~ob_dropOld /\ WouldExceed(ob_last)
          => ob_last.ret = "ErrOutboxFull" /\ ob_q = ob_last.q

\* C40 (amended): the bounds are the effective ones (the defaults 4096 and
\* 4 MiB where the option is <= 0); with DropOldest=false an Enqueue of a
\* non-empty message on an Outbox that is not closed returns ErrOutboxFull
\* when it would exceed a bound; and every Enqueue that does not return nil,
\* and every Enqueue of an empty message, leaves the queue unchanged.
C40_OutboxBounds ==
    /\ OutboxWithinBounds
    /\ ob_last.op = "Enqueue" /\ ~ob_dropOld /\ WouldExceed(ob_last)
       /\ ~ob_last.closed /\ Len(ob_last.arg) > 0
          => ob_last.ret = "ErrOutboxFull"
    /\ ob_last.op = "Enqueue" /\ (ob_last.ret # "nil" \/ Len(ob_last.arg) = 0)
          => ob_q = ob_last.q /\ ob_qBytes = ob_last.bytes

\* A full queue without DropOldest refused a message, and a Drain has taken
\* messages off a queue.
C40_Witness ==
    /\ ob_made /\ ~ob_dropOld /\ ~ob_closed
    /\ ob_last.op = "Enqueue" /\ ob_last.ret = "ErrOutboxFull"
    /\ Len(ob_last.arg) <= ob_maxBytes
    /\ Len(ob_q) = ob_maxMessages
====
